---- MODULE Spec2Model ----
(***************************************************************************)
(* Author-name sanitizer of the quotes store: name classifier, garbage     *)
(* detector, allow/deny lists, change ledger and the review loop           *)
(* (src/author_sanitizer.py), over the author/quote store (src/models.py,  *)
(* src/db.py).                                                             *)
(*                                                                         *)
(* A Python str is a sequence of one-character strings.                    *)
(***************************************************************************)
EXTENDS Integers, Sequences, FiniteSets, TLC

VARIABLES
    authors,        \* committed authors table: id -> [name, edit]
    quotes,         \* committed quotes table: quote id -> author_id
    changes,        \* ChangeLog.changes (in memory)
    log_file,       \* 'changes' list stored in author_changes.json
    wl_names,       \* NameWhitelist.names
    wl_metadata,    \* NameWhitelist.metadata: name -> [added, notes]
    bl_exact_names, \* NameBlacklist.exact_names
    bl_patterns,    \* NameBlacklist.patterns: list of [pattern, reason]
    whitelist_file, \* contents of author_whitelist.json
    blacklist_file, \* contents of author_blacklist.json
    changes_made,   \* AuthorSanitizer.changes_made
    skipped,        \* AuthorSanitizer.skipped
    mode,           \* which entry point is running
    queue,          \* the list returned by needs_editing() at the start of a pass
    idx,            \* number of queue entries already handed to the loop body
    read,           \* lines read from standard input by the last handler
    exports,        \* contents of the three export files
    pc,             \* position of the process
    clock,          \* reading of datetime.now()
    arg,            \* argument of the function under call
    ret,            \* value returned by the last call
    users,          \* committed users table: id -> [username, email, favorites]
    texts,          \* text column of the committed quotes of an importer's database
    pending,        \* texts of the quotes added to the importer's session, not committed
    progress_file,  \* contents of the progress file of each of the two importers
    run,            \* local variables of the running import function; runs: calls so far
    processed       \* history: the pages and categories whose import has returned

vars == <<authors, quotes, changes, log_file, wl_names, wl_metadata,
          bl_exact_names, bl_patterns, whitelist_file, blacklist_file,
          changes_made, skipped, mode, queue, idx, read, exports, pc, clock,
          arg, ret, users, texts, pending, progress_file, run, processed>>

storeVars == <<authors, quotes>>
listVars == <<wl_names, wl_metadata, bl_exact_names, bl_patterns,
              whitelist_file, blacklist_file>>
ledgerVars == <<changes, log_file>>
loopVars == <<changes_made, skipped, mode, queue, idx>>
importVars == <<texts, pending, progress_file, run, processed>>
appVars == <<users, importVars>>

NoName == <<"None">>    \* Python None where a str is expected
NoAuthor == 0           \* Python None where an Author is expected

-----------------------------------------------------------------------------
(* Characters and str methods *)

UPPER == {"A","B","C","D","E","F","G","H","I","J","K","L","M",
          "N","O","P","Q","R","S","T","U","V","W","X","Y","Z"}

LOWER == {"a","b","c","d","e","f","g","h","i","j","k","l","m",
          "n","o","p","q","r","s","t","u","v","w","x","y","z"}

DIGIT == {"0","1","2","3","4","5","6","7","8","9"}

WS == {" ", "\t", "\n"}

WORDCH == UPPER \cup LOWER \cup DIGIT \cup {"_"}

UpperSeq == <<"A","B","C","D","E","F","G","H","I","J","K","L","M",
              "N","O","P","Q","R","S","T","U","V","W","X","Y","Z">>

LowerSeq == <<"a","b","c","d","e","f","g","h","i","j","k","l","m",
              "n","o","p","q","r","s","t","u","v","w","x","y","z">>

CharLower(c) ==
    IF c \in UPPER
    THEN LowerSeq[CHOOSE k \in 1..26 : UpperSeq[k] = c]
    ELSE c

CharUpper(c) ==
    IF c \in LOWER
    THEN UpperSeq[CHOOSE k \in 1..26 : LowerSeq[k] = c]
    ELSE c

Lower(s) == [k \in 1..Len(s) |-> CharLower(s[k])]

Capitalize(s) ==
    [k \in 1..Len(s) |-> IF k = 1 THEN CharUpper(s[k]) ELSE CharLower(s[k])]

IsUpper(s) ==
    /\ \E k \in 1..Len(s) : s[k] \in UPPER
    /\ \A k \in 1..Len(s) : s[k] \notin LOWER

Count(s, c) == Cardinality({k \in 1..Len(s) : s[k] = c})

Strip(s) ==
    LET keep == {k \in 1..Len(s) : s[k] \notin WS}
    IN  IF keep = {} THEN <<>>
        ELSE LET lo == CHOOSE k \in keep : \A m \in keep : k <= m
                 hi == CHOOSE k \in keep : \A m \in keep : k >= m
             IN  SubSeq(s, lo, hi)

RECURSIVE Concat(_)
Concat(ss) == IF ss = <<>> THEN <<>> ELSE Head(ss) \o Concat(Tail(ss))

-----------------------------------------------------------------------------
(* Regular expressions: a pattern is a tree; Ends(r, s, i) is the set of    *)
(* positions at which a match of r that starts at position i of s can end. *)

Cls(S)   == [t |-> "cls", set |-> S]
NotCls(S) == [t |-> "ncls", set |-> S]
Cat(rs)  == [t |-> "cat", rs |-> rs]
Alt(rs)  == [t |-> "alt", rs |-> rs]
Star(r)  == [t |-> "star", r |-> r]
Plus(r)  == [t |-> "plus", r |-> r]
Opt(r)   == [t |-> "opt", r |-> r]
Bol      == [t |-> "bol"]
Eol      == [t |-> "eol"]
WordB    == [t |-> "wordb"]
Ch(c)    == Cls({c})
Lit(w)   == Cat([k \in 1..Len(w) |-> Ch(w[k])])

IsWordAt(s, k) == k >= 1 /\ k <= Len(s) /\ s[k] \in WORDCH

RECURSIVE Ends(_, _, _), EndsCat(_, _, _), Closure(_, _, _)

EndsCat(rs, s, P) ==
    IF rs = <<>> THEN P
    ELSE EndsCat(Tail(rs), s, UNION {Ends(Head(rs), s, p) : p \in P})

Closure(r, s, P) ==
    LET N == P \cup UNION {Ends(r, s, p) : p \in P}
    IN  IF N = P THEN P ELSE Closure(r, s, N)

Ends(r, s, i) ==
    CASE r.t = "cls"   -> IF i < Len(s) /\ s[i+1] \in r.set THEN {i+1} ELSE {}
      [] r.t = "ncls"  -> IF i < Len(s) /\ s[i+1] \notin r.set THEN {i+1} ELSE {}
      [] r.t = "cat"   -> EndsCat(r.rs, s, {i})
      [] r.t = "alt"   -> UNION {Ends(r.rs[k], s, i) : k \in 1..Len(r.rs)}
      [] r.t = "star"  -> Closure(r.r, s, {i})
      [] r.t = "plus"  -> Closure(r.r, s, Ends(r.r, s, i))
      [] r.t = "opt"   -> {i} \cup Ends(r.r, s, i)
      [] r.t = "bol"   -> IF i = 0 THEN {i} ELSE {}
      [] r.t = "eol"   -> IF i = Len(s) \/ (i = Len(s) - 1 /\ s[Len(s)] = "\n")
                          THEN {i} ELSE {}
      [] r.t = "wordb" -> IF IsWordAt(s, i) # IsWordAt(s, i+1) THEN {i} ELSE {}

ReMatch(r, s) == Ends(r, s, 0) # {}

ReSearch(r, s) == \E i \in 0..Len(s) : Ends(r, s, i) # {}

-----------------------------------------------------------------------------
(* NameValidator *)

ParenTail == Opt(Cat(<<Star(Cls(WS)), Ch("("), Plus(NotCls({")"})), Ch(")")>>))

CapWord == Cat(<<Cls(UPPER), Plus(Cls(LOWER))>>)

PatAbbreviation ==
    Cat(<<Bol, Plus(Cat(<<Cls(UPPER), Ch("."), Ch(" ")>>)), CapWord, ParenTail, Eol>>)

PatMiddleInitial ==
    Cat(<<Bol, CapWord, Plus(Cls(WS)), Cls(UPPER), Ch("."), Plus(Cls(WS)),
          CapWord, ParenTail, Eol>>)

PatFullName ==
    Cat(<<Bol, CapWord, Plus(Cat(<<Plus(Cls(WS)), CapWord>>)), ParenTail, Eol>>)

TitleWords ==
    Alt(<<Lit(<<"A","n","d">>), Lit(<<"T","h","e">>), Lit(<<"A">>),
          Lit(<<"A","n">>), Lit(<<"O","r">>), Lit(<<"I","n">>),
          Lit(<<"O","f">>), Lit(<<"W","i","t","h">>), Lit(<<"B","y">>)>>)

PatTitle ==
    Cat(<<Bol, CapWord,
          Star(Cat(<<Plus(Cls(WS)), TitleWords, Plus(Cls(LOWER))>>)),
          ParenTail, Eol>>)

\* Variant: the scripture template without the translation in parentheses
PatScripture_NoVersion ==
    Cat(<<Bol, Plus(Cls(DIGIT)), Plus(Cls(WS)), CapWord, Plus(Cls(WS)),
          Plus(Cls(DIGIT)), Star(Cls(DIGIT \cup {":", "-"})), Eol>>)

PatScripture ==
    Cat(<<Bol, Plus(Cls(DIGIT)), Plus(Cls(WS)), CapWord, Plus(Cls(WS)),
          Plus(Cls(DIGIT)), Star(Cls(DIGIT \cup {":", "-"})),
          Opt(Cat(<<Star(Cls(WS)), Ch("("), Plus(Cls(UPPER)), Ch(")")>>)), Eol>>)

\* Variant: the titled template listed ahead of the full-name template
PATTERNS_TitleFirst ==
    << [name |-> "abbreviation",             pattern |-> PatAbbreviation],
       [name |-> "name_with_middle_initial", pattern |-> PatMiddleInitial],
       [name |-> "title",                    pattern |-> PatTitle],
       [name |-> "full_name",                pattern |-> PatFullName],
       [name |-> "scripture",                pattern |-> PatScripture] >>

PATTERNS ==
    << [name |-> "abbreviation",             pattern |-> PatAbbreviation],
       [name |-> "name_with_middle_initial", pattern |-> PatMiddleInitial],
       [name |-> "full_name",                pattern |-> PatFullName],
       [name |-> "title",                    pattern |-> PatTitle],
       [name |-> "scripture",                pattern |-> PatScripture] >>

RECURSIVE validateFrom(_, _)
validateFrom(k, name) ==
    IF k > Len(PATTERNS) THEN <<FALSE, "unknown">>
    ELSE IF ReMatch(PATTERNS[k].pattern, name) THEN <<TRUE, PATTERNS[k].name>>
    ELSE validateFrom(k + 1, name)

validate(name) == validateFrom(1, name)

-----------------------------------------------------------------------------
(* Backtracking choice: a quantified atom followed by the rest of the       *)
(* pattern takes its longest (greedy) or shortest (lazy) extent after which *)
(* the rest can still match.                                                *)

Feasible(atom, rest, s, i) == {j \in Ends(atom, s, i) : Ends(rest, s, j) # {}}

MaxOf(S) == CHOOSE x \in S : \A y \in S : x >= y

MinOf(S) == CHOOSE x \in S : \A y \in S : x <= y

Greedy(atom, rest, s, i) == MaxOf(Feasible(atom, rest, s, i))

Lazy(atom, rest, s, i) == MinOf(Feasible(atom, rest, s, i))

Contains(s, w) ==
    \E k \in 0..(Len(s) - Len(w)) : SubSeq(s, k + 1, k + Len(w)) = w

RECURSIVE Join(_)
Join(ws) ==
    IF ws = <<>> THEN <<>>
    ELSE IF Len(ws) = 1 THEN ws[1]
    ELSE ws[1] \o <<" ">> \o Join(Tail(ws))

RECURSIVE Split(_)
Split(s) ==
    LET t == Strip(s)
    IN  IF t = <<>> THEN <<>>
        ELSE LET gaps == {k \in 1..Len(t) : t[k] \in WS}
             IN  IF gaps = {} THEN <<t>>
                 ELSE LET g == MinOf(gaps)
                      IN  <<SubSeq(t, 1, g - 1)>> \o Split(SubSeq(t, g + 1, Len(t)))

-----------------------------------------------------------------------------
(* AuthorSanitizer formatting helpers *)

QuoteRun == Cat(<<Ch("\""), Plus(Ch("\""))>>)
WordRun == Plus(Cls(WORDCH))
SpaceRun == Plus(Cls(WS))
AnyRun == Plus(NotCls({"\n"}))

clean_quotation_marks(name) ==
    LET r7 == WordRun
        r6 == Cat(<<SpaceRun, r7>>)
        r5 == Cat(<<QuoteRun, r6>>)
        r4 == Cat(<<AnyRun, r5>>)
        r3 == Cat(<<QuoteRun, r4>>)
        r2 == Cat(<<SpaceRun, r3>>)
        r1 == Cat(<<WordRun, r2>>)
        Cat0 == Cat(<<>>)
        starts == {i \in 0..Len(name) : Ends(r1, name, i) # {}}
    IN  IF starts # {}
        THEN LET i  == MinOf(starts)
                 j1 == Greedy(WordRun, r2, name, i)
                 j2 == Greedy(SpaceRun, r3, name, j1)
                 j3 == Greedy(QuoteRun, r4, name, j2)
                 j4 == Lazy(AnyRun, r5, name, j3)
                 j5 == Greedy(QuoteRun, r6, name, j4)
                 j6 == Greedy(SpaceRun, r7, name, j5)
                 j7 == Greedy(WordRun, Cat0, name, j6)
                 before  == SubSeq(name, i + 1, j1)
                 content == Strip(SubSeq(name, j3 + 1, j4))
                 after   == SubSeq(name, j6 + 1, j7)
             IN  before \o <<" ">> \o after \o <<" ", "(">> \o content \o <<")">>
        ELSE SelectSeq(name, LAMBDA c : c # "\"")

RECURSIVE SubInitials(_)
SubInitials(s) ==
    IF s = <<>> THEN <<>>
    ELSE IF Len(s) >= 4 /\ s[1] \in UPPER /\ s[2] = "." /\ s[3] \in UPPER /\ s[4] = "."
    THEN <<s[1], ".", " ", s[3], ".">> \o SubInitials(SubSeq(s, 5, Len(s)))
    ELSE <<s[1]>> \o SubInitials(Tail(s))

RECURSIVE SubSpacedInitials(_)
SubSpacedInitials(s) ==
    IF s = <<>> THEN <<>>
    ELSE IF Len(s) >= 5 /\ s[1] \in UPPER /\ s[2] = "." /\ s[3] = " "
            /\ s[4] \in UPPER /\ s[5] = "."
    THEN <<s[1], s[2]>> \o <<" ">> \o <<s[4], s[5]>>
            \o SubSpacedInitials(SubSeq(s, 6, Len(s)))
    ELSE <<s[1]>> \o SubSpacedInitials(Tail(s))

format_abbreviations(name) == Strip(SubSpacedInitials(SubInitials(name)))

lowercase_words ==
    { <<"a">>, <<"a","n">>, <<"t","h","e">>, <<"a","n","d">>, <<"o","r">>,
      <<"b","u","t">>, <<"i","n">>, <<"o","n">>, <<"a","t">>, <<"t","o">>,
      <<"f","o","r">>, <<"o","f">>, <<"w","i","t","h">>, <<"b","y">> }

\* Variant: no parenthetical is set aside; every word of the name is re-cased
format_title_case_NoParen(name) ==
    LET words == Split(name)
    IN  Join([k \in 1..Len(words) |->
                IF k = 1 \/ Lower(words[k]) \notin lowercase_words
                THEN Capitalize(words[k])
                ELSE Lower(words[k])])

format_title_case(name) ==
    LET tail == Cat(<<Ch("("), AnyRun, Ch(")"), Eol>>)
        lead == Star(NotCls({"\n"}))
        has  == Ends(Cat(<<Bol, lead, tail>>), name, 0) # {}
        j1   == Lazy(lead, tail, name, 0)
        j2   == Greedy(AnyRun, Cat(<<Ch(")"), Eol>>), name, j1 + 1)
        paren == SubSeq(name, j1 + 1, j2 + 1)
        title == IF has THEN Strip(SubSeq(name, 1, j1)) ELSE name
        words == Split(title)
        cased == [k \in 1..Len(words) |->
                    IF k = 1 \/ Lower(words[k]) \notin lowercase_words
                    THEN Capitalize(words[k])
                    ELSE Lower(words[k])]
        final == Join(cased)
    IN  IF has THEN final \o <<" ">> \o paren ELSE final

format_scripture_reference(name) == name

TitleKeyword ==
    Cat(<<WordB,
          Alt(<<Lit(<<"T","h","e">>), Lit(<<"A">>), Lit(<<"A","n">>),
                Lit(<<"A","n","d">>), Lit(<<"O","r">>)>>),
          WordB>>)

FormatCleaned(name) ==
    LET is_title ==
            \/ IsUpper(name)
            \/ ReSearch(TitleKeyword, name)
            \/ Contains(name, <<":", " ">>)
            \/ /\ Count(name, " ") > 2
               /\ Cardinality({k \in 1..Len(name) : name[k] \in UPPER}) > 2
    IN  IF ReMatch(Cat(<<Bol, Plus(Cls(DIGIT)), SpaceRun, Cls(UPPER)>>), name)
        THEN format_scripture_reference(name)
        ELSE IF is_title /\ ~ReMatch(Cat(<<Bol, Cls(UPPER), Ch("."), Cls(WS)>>), name)
        THEN format_title_case(name)
        ELSE format_abbreviations(name)

suggest_format(original) ==
    FormatCleaned(IF Contains(original, <<"\"", "\"", "\"">>)
                     \/ Contains(original, <<"\"", "\"", "\"", "\"">>)
                  THEN clean_quotation_marks(original)
                  ELSE original)

-----------------------------------------------------------------------------
(* ChangeLog *)

Change(timestamp, change_type, author_id, old_name, new_name, merged_with) ==
    [timestamp |-> timestamp, type |-> change_type, author_id |-> author_id,
     old_name |-> old_name, new_name |-> new_name, merged_with |-> merged_with]

\* Variant: the new record is put in front of the list
ChangeLogAppended_Front(log, change) == <<change>> \o log

ChangeLogAppended(log, change) == Append(log, change)

\* changes[-count:]
get_latest(log, count) ==
    LET n == Len(log)
        start == IF count > 0 THEN (IF count <= n THEN n - count ELSE 0)
                 ELSE IF -count <= n THEN -count ELSE n
    IN  SubSeq(log, start + 1, n)

get_by_type(log, change_type) == SelectSeq(log, LAMBDA c : c.type = change_type)

ChangeLogExport(log) == [total_changes |-> Len(log), changes |-> log]

\* Variant: the record is appended and the file is left for a later save
ChangeLogAdd_NoSave(change_type, author_id, old_name, new_name, merged_with) ==
    /\ changes' = ChangeLogAppended(changes,
                    Change(clock, change_type, author_id, old_name, new_name, merged_with))
    /\ log_file' = log_file
    /\ clock' = clock + 1

\* ChangeLog.add as part of a handler: append, then save
ChangeLogAdd(change_type, author_id, old_name, new_name, merged_with) ==
    /\ changes' = ChangeLogAppended(changes,
                    Change(clock, change_type, author_id, old_name, new_name, merged_with))
    /\ log_file' = changes'
    /\ clock' = clock + 1

-----------------------------------------------------------------------------
(* NameWhitelist, NameBlacklist *)

\* the characters of the names, in the order of their code points
CodePoints ==
    <<" ", "!", "\"", "#", "$", "%", "&", "(", ")", "*", "+", ",", "-", ".", "/",
      "0", "1", "2", "3", "4", "5", "6", "7", "8", "9", ":", ";", "?", "@">>
    \o UpperSeq \o <<"[", "]", "^", "_">> \o LowerSeq \o <<"{", "|", "}", "~">>

Ord(c) == CHOOSE k \in 1..Len(CodePoints) : CodePoints[k] = c

\* a < b for two str values
StrLess(a, b) ==
    \E k \in 1..(Len(b)) :
        /\ \A i \in 1..(k - 1) : i <= Len(a) /\ a[i] = b[i]
        /\ k > Len(a) \/ Ord(a[k]) < Ord(b[k])

\* sorted(list(names))
RECURSIVE Sorted(_)
Sorted(names) ==
    IF names = {} THEN <<>>
    ELSE LET least == CHOOSE a \in names : \A b \in names \ {a} : StrLess(a, b)
         IN  <<least>> \o Sorted(names \ {least})

\* NameWhitelist.save: what json.dump writes
WhitelistSaved(names, metadata) ==
    [names |-> Sorted(names), metadata |-> metadata, count |-> Cardinality(names)]

\* NameBlacklist.save: what json.dump writes
BlacklistSaved(patterns, exact_names) ==
    [patterns |-> patterns, exact_names |-> Sorted(exact_names),
     total_patterns |-> Len(patterns), total_names |-> Cardinality(exact_names)]

WhitelistAdded(names, name) == names \cup {name}

\* Variant: the entry of a name that has one is left alone
MetadataAdded_KeepFirst(metadata, name, notes, now) ==
    IF notes # <<>> /\ name \notin DOMAIN metadata
    THEN [n \in DOMAIN metadata \cup {name} |->
            IF n = name THEN [added |-> now, notes |-> notes] ELSE metadata[n]]
    ELSE metadata

MetadataAdded(metadata, name, notes, now) ==
    IF notes # <<>>
    THEN [n \in DOMAIN metadata \cup {name} |->
            IF n = name THEN [added |-> now, notes |-> notes] ELSE metadata[n]]
    ELSE metadata

MetadataRemoved(metadata, name) ==
    [n \in DOMAIN metadata \ {name} |-> metadata[n]]

is_whitelisted(names, name) == name \in names

\* re.compile of the pattern texts that the model enters into the deny-list
BlCompile(pattern) ==
    CASE pattern = "^[0-9]" -> Cat(<<Bol, Cls(DIGIT)>>)
      [] pattern = "C"      -> Ch("C")
      [] pattern = "[.]"    -> Ch(".")
      [] pattern = "("      -> [t |-> "invalid"]
      [] OTHER              -> [t |-> "invalid"]

\* Variant: the reason of the last matching pattern is reported
PatternScan_Last(patterns, k, name) ==
    LET hits == {j \in k..Len(patterns) :
                    /\ BlCompile(patterns[j].pattern).t # "invalid"
                    /\ ReSearch(BlCompile(patterns[j].pattern), name)}
    IN  IF hits = {} THEN <<FALSE, "">> ELSE <<TRUE, patterns[MaxOf(hits)].reason>>

\* Variant: the try block encloses the loop, so a bad pattern ends the scan
PatternScan_StopsAtInvalid(patterns, k, name) ==
    LET hits == {j \in k..Len(patterns) :
                    /\ \A i \in k..j : BlCompile(patterns[i].pattern).t # "invalid"
                    /\ ReSearch(BlCompile(patterns[j].pattern), name)}
    IN  IF hits = {} THEN <<FALSE, "">> ELSE <<TRUE, patterns[MinOf(hits)].reason>>

RECURSIVE PatternScan(_, _, _)
PatternScan(patterns, k, name) ==
    IF k > Len(patterns) THEN <<FALSE, "">>
    ELSE LET re == BlCompile(patterns[k].pattern)
         IN  IF re.t # "invalid" /\ ReSearch(re, name)
             THEN <<TRUE, patterns[k].reason>>
             ELSE PatternScan(patterns, k + 1, name)

is_blacklisted(exact_names, patterns, name) ==
    IF name \in exact_names
    THEN <<TRUE, "exact match in blacklist">>
    ELSE PatternScan(patterns, 1, name)

-----------------------------------------------------------------------------
(* AuthorSanitizer.is_likely_garbage *)

Initial == Cat(<<Cls(UPPER), Ch(".")>>)

IssuesIf(cond, issue) == IF cond THEN <<issue>> ELSE <<>>

\* Variant: the template check is made before the other checks
HeuristicIssues_PatternFirst(name) ==
       IssuesIf(~validate(name)[1], <<"doesn't match standard patterns">>)
    \o IssuesIf(Count(name, "\"") > 2, <<"excessive quotes", Count(name, "\"")>>)
    \o IssuesIf(ReSearch(Cat(<<Initial, Initial>>), name)
                  /\ ~ReSearch(Cat(<<Initial, Ch(" "), Initial>>), name),
                <<"improper abbreviation spacing">>)
    \o IssuesIf(ReSearch(Cat(<<Cls(UPPER), Star(Cls(LOWER)), Cls(UPPER)>>), name)
                  /\ ~ReSearch(Ch("("), name),
                <<"unusual capitalization">>)
    \o IssuesIf(ReMatch(Cat(<<Bol, Plus(Cls(DIGIT))>>), name)
                  /\ ~ReMatch(Cat(<<Bol, Plus(Cls(DIGIT)), SpaceRun,
                                    Plus(Cls(UPPER \cup LOWER))>>), name),
                <<"possible malformed scripture reference">>)
    \o IssuesIf(Count(name, ".") > 4, <<"excessive periods">>)

HeuristicIssues(name) ==
       IssuesIf(Count(name, "\"") > 2, <<"excessive quotes", Count(name, "\"")>>)
    \o IssuesIf(ReSearch(Cat(<<Initial, Initial>>), name)
                  /\ ~ReSearch(Cat(<<Initial, Ch(" "), Initial>>), name),
                <<"improper abbreviation spacing">>)
    \o IssuesIf(ReSearch(Cat(<<Cls(UPPER), Star(Cls(LOWER)), Cls(UPPER)>>), name)
                  /\ ~ReSearch(Ch("("), name),
                <<"unusual capitalization">>)
    \o IssuesIf(ReMatch(Cat(<<Bol, Plus(Cls(DIGIT))>>), name)
                  /\ ~ReMatch(Cat(<<Bol, Plus(Cls(DIGIT)), SpaceRun,
                                    Plus(Cls(UPPER \cup LOWER))>>), name),
                <<"possible malformed scripture reference">>)
    \o IssuesIf(Count(name, ".") > 4, <<"excessive periods">>)
    \o IssuesIf(~validate(name)[1], <<"doesn't match standard patterns">>)

\* Variant: a deny-list match ends the checks
is_likely_garbage_DenyListOnly(names, exact_names, patterns, name) ==
    LET bl == is_blacklisted(exact_names, patterns, name)
        first == IssuesIf(bl[1], <<"blacklist match", bl[2]>>)
    IN  IF is_whitelisted(names, name)
        THEN <<FALSE, <<>>>>
        ELSE LET issues == IF bl[1] THEN first ELSE HeuristicIssues(name)
             IN  <<Len(issues) > 0, issues>>

\* Variant: the allow-list branch returns the issues collected so far
is_likely_garbage_KeepIssues(names, exact_names, patterns, name) ==
    LET bl == is_blacklisted(exact_names, patterns, name)
        first == IssuesIf(bl[1], <<"blacklist match", bl[2]>>)
        issues == IF is_whitelisted(names, name) THEN first
                  ELSE first \o HeuristicIssues(name)
    IN  <<Len(issues) > 0, issues>>

is_likely_garbage(names, exact_names, patterns, name) ==
    LET bl == is_blacklisted(exact_names, patterns, name)
        first == IssuesIf(bl[1], <<"blacklist match", bl[2]>>)
    IN  IF is_whitelisted(names, name)
        THEN <<FALSE, <<>>>>
        ELSE LET issues == first \o HeuristicIssues(name)
             IN  <<Len(issues) > 0, issues>>

-----------------------------------------------------------------------------
(* State after construction: no list or ledger file exists yet *)

NoExports == [changelog |-> NoName, whitelist |-> NoName, blacklist |-> NoName]

InitFiles ==
    /\ wl_names = {} /\ wl_metadata = <<>> /\ bl_exact_names = {} /\ bl_patterns = <<>>
    /\ whitelist_file = NoName /\ blacklist_file = NoName
    /\ changes = <<>> /\ log_file = <<>>
    /\ exports = NoExports
    /\ clock = 0

\* no user, no imported quote, no progress file, no import running
InitDatabase ==
    /\ users = <<>>
    /\ texts = <<>> /\ pending = <<>>
    /\ progress_file = [pages |-> [state |-> "absent"], categories |-> [state |-> "absent"]]
    /\ run = [fn |-> "none", runs |-> 0] /\ processed = {}

InitSanitizer ==
    /\ InitFiles
    /\ InitDatabase
    /\ changes_made = <<>> /\ skipped = <<>>
    /\ mode = "menu" /\ queue = <<>> /\ idx = 0 /\ read = <<>>

-----------------------------------------------------------------------------
(* Specification of the name classifier: validate applied to bounded names *)

MaxTokens == 5

ClassifyNames ==
    LET NameTokens == { <<"A","b">>, <<"A",".">>, <<" ">>, <<"1">>, <<"(","b",")">>, <<"$">> }
    IN  {Concat(ts) : ts \in UNION {[1..k -> NameTokens] : k \in 0..MaxTokens}}

\* 'C. S. Lewis', 'John Michael Gottman', '1 Kings 1:12-14 (NIV)',
\* 'random$$$garbage'
ValidateExamples ==
    << <<"C","."," ","S","."," ","L","e","w","i","s">>,
       <<"J","o","h","n"," ","M","i","c","h","a","e","l"," ","G","o","t","t",
          "m","a","n">>,
       <<"1"," ","K","i","n","g","s"," ","1",":","1","2","-","1","4"," ","(",
          "N","I","V",")">>,
       <<"r","a","n","d","o","m","$","$","$","g","a","r","b","a","g","e">> >>

InitClassify ==
    /\ InitSanitizer
    /\ authors = <<>> /\ quotes = <<>>
    /\ pc = "call"
    /\ arg \in ClassifyNames \cup {ValidateExamples[k] : k \in 1..4}
    /\ ret = <<>>

CallValidate ==
    /\ pc = "call"
    /\ ret' = validate(arg)
    /\ pc' = "validate"
    /\ UNCHANGED <<storeVars, listVars, ledgerVars, loopVars, read, exports, appVars, clock, arg>>

NextClassify == CallValidate

SpecClassify == InitClassify /\ [][NextClassify]_vars

-----------------------------------------------------------------------------
(* Specification of the change ledger: its four operations in any order *)

MaxLog == 3

InitChangeLog ==
    /\ InitSanitizer
    /\ authors = <<>> /\ quotes = <<>>
    /\ arg = <<>> /\ ret = <<>>
    /\ pc = "ledger"

LogAdd ==
    /\ pc \in {"ledger", "add", "get_latest", "get_by_type", "export"}
    /\ Len(changes) < MaxLog
    /\ \E t \in {"RENAMED", "MERGED", "DELETED"}, id \in {1, 2} :
          /\ ChangeLogAdd(t, id, <<"A",".","B",".">>,
                          IF t = "DELETED" THEN <<>> ELSE <<"A","."," ","B",".">>,
                          IF t = "MERGED" THEN <<"A","."," ","B",".">> ELSE NoName)
          /\ arg' = <<t, id>>
    /\ ret' = <<>>
    /\ pc' = "add"
    /\ UNCHANGED <<exports, appVars>>
    /\ UNCHANGED <<storeVars, listVars, loopVars, read>>

LogGetLatest ==
    /\ pc \in {"ledger", "add", "get_latest", "get_by_type", "export"}
    /\ \E count \in 0..(MaxLog + 1) :
          /\ ret' = get_latest(changes, count)
          /\ arg' = <<count>>
    /\ pc' = "get_latest"
    /\ UNCHANGED <<ledgerVars, exports, appVars, clock>>
    /\ UNCHANGED <<storeVars, listVars, loopVars, read>>

LogGetByType ==
    /\ pc \in {"ledger", "add", "get_latest", "get_by_type", "export"}
    /\ \E t \in {"RENAMED", "MERGED", "DELETED"} :
          /\ ret' = get_by_type(changes, t)
          /\ arg' = <<t>>
    /\ pc' = "get_by_type"
    /\ UNCHANGED <<ledgerVars, exports, appVars, clock>>
    /\ UNCHANGED <<storeVars, listVars, loopVars, read>>

LogExport ==
    /\ pc \in {"ledger", "add", "get_latest", "get_by_type", "export"}
    /\ exports' = [exports EXCEPT !.changelog = ChangeLogExport(changes)]
    /\ UNCHANGED appVars
    /\ arg' = <<>>
    /\ ret' = <<>>
    /\ pc' = "export"
    /\ UNCHANGED <<ledgerVars, clock>>
    /\ UNCHANGED <<storeVars, listVars, loopVars, read>>

NextChangeLog == LogAdd \/ LogGetLatest \/ LogGetByType \/ LogExport

SpecChangeLog == InitChangeLog /\ [][NextChangeLog]_vars

-----------------------------------------------------------------------------
(* Specification of the allow/deny lists (main() modes 4 and 5) and of the  *)
(* garbage detector over them                                               *)

MaxPatterns == 2

MaxStamps == 2

ListNames == { <<"C",".","S",".","L","e","w","i","s">>, <<"1","x">> }

DetectNames ==
    ListNames \cup { <<"A","b"," ","C","d">>,
                     <<"1","A","B","\"","\"","\"","C",".","D",".",".",".",".">> }

ListInputs == ListNames \cup { <<" ","1","x"," ">> }

PatternInputs ==
    { [pattern |-> "(",      reason |-> "broken"],
      [pattern |-> "^[0-9]", reason |-> "digit"],
      [pattern |-> "C",      reason |-> "letter"],
      [pattern |-> "[.]",    reason |-> "dot"] }

InitListMenu ==
    /\ InitSanitizer
    /\ authors = <<>> /\ quotes = <<>>
    /\ arg = <<>> /\ ret = <<>>
    /\ pc = "lists"

\* NameWhitelist.add after "Enter author name" / "Notes (optional)"
WhitelistAdd ==
    /\ pc # "done"
    /\ \E name \in ListInputs, notes \in { <<>>, <<"o","k">> } :
          /\ notes # <<>> => clock < MaxStamps
          /\ wl_names' = WhitelistAdded(wl_names, Strip(name))
          /\ wl_metadata' = MetadataAdded(wl_metadata, Strip(name), Strip(notes), clock)
          /\ clock' = IF Strip(notes) # <<>> THEN clock + 1 ELSE clock
          /\ arg' = <<Strip(name), Strip(notes)>>
    /\ whitelist_file' = WhitelistSaved(wl_names', wl_metadata')
    /\ ret' = <<>>
    /\ pc' = "whitelist.add"
    /\ UNCHANGED <<bl_exact_names, bl_patterns, blacklist_file>>
    /\ UNCHANGED <<storeVars, ledgerVars, loopVars, read, exports, appVars>>

\* NameWhitelist.remove
WhitelistRemove ==
    /\ pc # "done"
    /\ \E name \in ListInputs :
          /\ wl_names' = wl_names \ {Strip(name)}
          /\ wl_metadata' = MetadataRemoved(wl_metadata, Strip(name))
          /\ arg' = <<>>
    /\ ret' = <<>>
    /\ pc' = "whitelist.remove"
    /\ whitelist_file' = WhitelistSaved(wl_names', wl_metadata')
    /\ UNCHANGED <<bl_exact_names, bl_patterns, blacklist_file, clock>>
    /\ UNCHANGED <<storeVars, ledgerVars, loopVars, read, exports, appVars>>

\* NameBlacklist.add_exact
BlacklistAddExact ==
    /\ pc # "done"
    /\ \E name \in ListInputs :
          /\ bl_exact_names' = bl_exact_names \cup {Strip(name)}
          /\ arg' = <<>>
    /\ ret' = <<>>
    /\ pc' = "blacklist.add_exact"
    /\ blacklist_file' = BlacklistSaved(bl_patterns, bl_exact_names')
    /\ UNCHANGED <<wl_names, wl_metadata, whitelist_file, bl_patterns, clock>>
    /\ UNCHANGED <<storeVars, ledgerVars, loopVars, read, exports, appVars>>

\* NameBlacklist.add_pattern
BlacklistAddPattern ==
    /\ pc # "done"
    /\ Len(bl_patterns) < MaxPatterns
    /\ \E item \in PatternInputs :
          /\ bl_patterns' = Append(bl_patterns, item)
          /\ arg' = <<item>>
    /\ ret' = <<>>
    /\ pc' = "blacklist.add_pattern"
    /\ blacklist_file' = BlacklistSaved(bl_patterns', bl_exact_names)
    /\ UNCHANGED <<wl_names, wl_metadata, whitelist_file, bl_exact_names, clock>>
    /\ UNCHANGED <<storeVars, ledgerVars, loopVars, read, exports, appVars>>

CallIsBlacklisted ==
    /\ pc # "done"
    /\ \E name \in DetectNames :
          /\ ret' = is_blacklisted(bl_exact_names, bl_patterns, name)
          /\ arg' = <<name>>
    /\ pc' = "is_blacklisted"
    /\ UNCHANGED <<listVars, clock>>
    /\ UNCHANGED <<storeVars, ledgerVars, loopVars, read, exports, appVars>>

CallIsLikelyGarbage ==
    /\ pc # "done"
    /\ \E name \in DetectNames :
          /\ ret' = is_likely_garbage(wl_names, bl_exact_names, bl_patterns, name)
          /\ arg' = <<name>>
    /\ pc' = "is_likely_garbage"
    /\ UNCHANGED <<listVars, clock>>
    /\ UNCHANGED <<storeVars, ledgerVars, loopVars, read, exports, appVars>>

NextListMenu ==
    \/ WhitelistAdd
    \/ WhitelistRemove
    \/ BlacklistAddExact
    \/ BlacklistAddPattern
    \/ CallIsBlacklisted
    \/ CallIsLikelyGarbage

SpecListMenu == InitListMenu /\ [][NextListMenu]_vars

-----------------------------------------------------------------------------
(* Specification of the three files of the sanitizer: a session that adds   *)
(* to the ledger, or a session that edits the lists                         *)

InitPersist == InitChangeLog \/ InitListMenu

NextPersist ==
    \/ LogAdd
    \/ pc \notin {"ledger", "add"} /\ WhitelistAdd
    \/ pc \notin {"ledger", "add"} /\ WhitelistRemove
    \/ pc \notin {"ledger", "add"} /\ BlacklistAddExact
    \/ pc \notin {"ledger", "add"} /\ BlacklistAddPattern

SpecPersist == InitPersist /\ [][NextPersist]_vars

-----------------------------------------------------------------------------
(* Specification of the formatters: suggest_format, applied once and again  *)
(* to its own result, and format_title_case, on bounded names               *)

MaxFormatTokens == 4

FormatNames ==
    LET FormatTokens == { <<"J",".">>, <<" ">>, <<"a","B">>, <<"T","H","E">>,
                          <<"(","A","B",")">>, <<"(">>, <<"\"">> }
    IN  {Concat(ts) : ts \in UNION {[1..k -> FormatTokens] : k \in 0..MaxFormatTokens}}

InitFormat ==
    /\ InitSanitizer
    /\ authors = <<>> /\ quotes = <<>>
    /\ pc = "call"
    /\ arg \in FormatNames
    /\ ret = <<>>

\* suggestion = suggest_format(author.name)
CallSuggestFormat ==
    /\ pc = "call"
    /\ ret' = suggest_format(arg)
    /\ read' = <<arg>>
    /\ pc' = "suggest_format"
    /\ UNCHANGED <<storeVars, listVars, ledgerVars, loopVars, exports, appVars, clock, arg>>

\* suggest_format of a name that an earlier suggestion produced
CallSuggestFormatAgain ==
    /\ pc = "suggest_format"
    /\ arg' = ret
    /\ ret' = suggest_format(ret)
    /\ pc' = "suggest_format again"
    /\ UNCHANGED <<storeVars, listVars, ledgerVars, loopVars, read, exports, appVars, clock>>

CallFormatTitleCase ==
    /\ pc = "call"
    /\ ret' = format_title_case(arg)
    /\ pc' = "format_title_case"
    /\ UNCHANGED <<storeVars, listVars, ledgerVars, loopVars, read, exports, appVars, clock, arg>>

NextFormat ==
    \/ CallSuggestFormat
    \/ CallSuggestFormatAgain
    \/ CallFormatTitleCase

SpecFormat == InitFormat /\ [][NextFormat]_vars

-----------------------------------------------------------------------------
(* Author store (models.Author, models.Quote, db.AuthorManager) *)

\* query(Author).filter_by(name=name).first(); names are unique
get_by_name(auth, name) ==
    IF \E a \in DOMAIN auth : auth[a].name = name
    THEN CHOOSE a \in DOMAIN auth : auth[a].name = name
    ELSE NoAuthor

\* try: get_by_name(name) is not None / except: False
author_exists(auth, name) == name # <<>> /\ get_by_name(auth, name) # NoAuthor

\* query(Author).filter_by(edit=True).all(), in id order
RECURSIVE needs_edit(_, _)
needs_edit(auth, a) ==
    IF \A b \in DOMAIN auth : b < a THEN <<>>
    ELSE (IF a \in DOMAIN auth /\ auth[a].edit THEN <<a>> ELSE <<>>)
            \o needs_edit(auth, a + 1)

HasQuotes(qs, a) == \E q \in DOMAIN qs : qs[q] = a

\* Variant: the rename leaves the edit flag as it was
Renamed_KeepsFlag(auth, a, new_name) == [auth EXCEPT ![a].name = new_name]

\* Variant: the rename clears the flag of every author
Renamed_AllUnmarked(auth, a, new_name) ==
    [b \in DOMAIN auth |-> [name |-> IF b = a THEN new_name ELSE auth[b].name, edit |-> FALSE]]

\* author.name = new_name; author.unmark_for_edit(); commit
Renamed(auth, a, new_name) == [auth EXCEPT ![a] = [name |-> new_name, edit |-> FALSE]]

\* Variant: the quotes stay with from_author
QuotesMoved_None(qs, from, to) == qs

\* quote.author = to_author for every quote of from_author; commit
QuotesMoved(qs, from, to) == [q \in DOMAIN qs |-> IF qs[q] = from THEN to ELSE qs[q]]

\* session.delete(author); commit -- for an author without quotes
AuthorDeleted(auth, a) == [b \in DOMAIN auth \ {a} |-> auth[b]]

\* Variant: any reply counts as consent
IsYes_Always(answer) == TRUE

\* input(...).strip().lower() == 'yes'
IsYes(answer) == Lower(Strip(answer)) = <<"y","e","s">>

-----------------------------------------------------------------------------
(* The review loop: main() modes 1 and 2 over a small author table *)

NumQuotes == 2

InitNames ==
    << <<"C",".","S","."," ","A","b">>,
       <<"C","."," ","S","."," ","A","b">>,
       <<"A",".","B","."," ","C","d">> >>

ChoiceInputs ==
    { <<"1">>, <<"2">>, <<"3">>, <<"4">>, <<"5">>, <<"6">>, <<"7">>,
      <<" ","7"," ">>, <<"8">>, <<>> }

EditInputs == { InitNames[2], <<" ","E","f"," ">>, <<" ">> }

Answers == { <<"y","e","s">>, <<"Y","E","S"," ">>, <<"n","o">> }

Init ==
    /\ InitSanitizer
    /\ \E flags \in [1..Len(InitNames) -> BOOLEAN] :
          authors = [a \in 1..Len(InitNames) |-> [name |-> InitNames[a], edit |-> flags[a]]]
    /\ quotes \in [1..NumQuotes -> 1..Len(InitNames)]
    /\ arg = <<>> /\ ret = <<>>
    /\ pc = "menu"

Reviewing(m) == mode = m /\ pc = "review" /\ idx < Len(queue)

cur == queue[idx + 1]

\* merge_authors(from_author, to_author)
MergeAuthors(from, to) ==
    /\ quotes' = QuotesMoved(quotes, from, to)
    /\ authors' = AuthorDeleted(authors, from)
    /\ ChangeLogAdd("MERGED", from, authors[from].name, authors[to].name,
                    authors[to].name)

\* Variant: the new name is not looked up before the rename
ChangeBranch_NoLookup(a, raw) ==
    IF Strip(raw) = authors[a].name THEN "no change"
    ELSE IF Strip(raw) = <<>> THEN "ValidationError"
    ELSE "rename"

\* the branch _apply_change(author, new_name) takes
ChangeBranch(a, raw) ==
    LET new_name == Strip(raw)
        existing == get_by_name(authors, new_name)
    IN  IF new_name = authors[a].name THEN "no change"
        ELSE IF new_name = <<>> THEN "ValidationError"
        ELSE IF existing # NoAuthor /\ existing # a THEN "exists"
        ELSE "rename"

\* _apply_change(author, new_name); answer is the reply to "Merge these authors?"
ApplyChange(a, raw, answer) ==
    LET new_name == Strip(raw)
        old_name == authors[a].name
        branch == ChangeBranch(a, raw)
    IN  CASE branch = "no change" ->
                /\ pc' = pc
                /\ UNCHANGED <<storeVars, ledgerVars, clock, changes_made>>
          [] branch = "ValidationError" ->
                /\ pc' = "failed"
                /\ UNCHANGED <<storeVars, ledgerVars, clock, changes_made>>
          [] branch = "exists" /\ IsYes(answer) ->
                /\ MergeAuthors(a, get_by_name(authors, new_name))
                /\ changes_made' = Append(changes_made, <<"MERGED", old_name, new_name>>)
                /\ pc' = pc
          [] branch = "exists" /\ ~IsYes(answer) ->
                /\ pc' = pc
                /\ UNCHANGED <<storeVars, ledgerVars, clock, changes_made>>
          [] branch = "rename" ->
                /\ authors' = Renamed(authors, a, new_name)
                /\ ChangeLogAdd("RENAMED", a, old_name, new_name, NoName)
                /\ changes_made' = Append(changes_made, <<"RENAMED", old_name, new_name>>)
                /\ pc' = pc
                /\ UNCHANGED quotes

\* the replies _apply_change reads: one, if it asks whether to merge
MergeReplies(a, raw) == IF ChangeBranch(a, raw) = "exists" THEN Answers ELSE {<<>>}

RepliesRead(a, raw, answer) == IF ChangeBranch(a, raw) = "exists" THEN <<answer>> ELSE <<>>

\* process_author returns unless the handler raised
Returned == idx' = IF pc' = "failed" THEN idx ELSE idx + 1

\* main() mode 1: run_interactive up to the first prompt
RunInteractive ==
    /\ pc = "menu"
    /\ read' = << <<"1">> >>
    /\ queue' = needs_edit(authors, 1)
    /\ idx' = 0
    /\ mode' = "interactive"
    /\ pc' = IF queue' = <<>> THEN "done" ELSE "review"
    /\ UNCHANGED <<storeVars, listVars, ledgerVars, changes_made, skipped,
                   exports, appVars, clock, arg, ret>>

\* main() mode 2, confirmed: run_batch(auto_fix=True) up to the loop
RunBatch ==
    /\ pc = "menu"
    /\ \E confirm \in Answers :
          /\ read' = << <<"2">>, confirm >>
          /\ IF IsYes(confirm)
             THEN /\ queue' = needs_edit(authors, 1)
                  /\ idx' = 0
                  /\ mode' = "batch"
                  /\ pc' = IF queue' = <<>> THEN "done" ELSE "review"
             ELSE UNCHANGED <<queue, idx, mode, pc>>
    /\ UNCHANGED <<storeVars, listVars, ledgerVars, changes_made, skipped,
                   exports, appVars, clock, arg, ret>>

\* option 1
Keep ==
    /\ Reviewing("interactive")
    /\ \E c \in ChoiceInputs : Strip(c) = <<"1">> /\ read' = <<c>>
    /\ skipped' = Append(skipped, authors[cur].name)
    /\ idx' = idx + 1
    /\ UNCHANGED <<storeVars, listVars, ledgerVars, changes_made, mode, queue,
                   exports, appVars, pc, clock, arg, ret>>

\* option 2, offered when the suggestion differs from the name
AcceptSuggestion ==
    /\ Reviewing("interactive")
    /\ LET suggestion == suggest_format(authors[cur].name)
       IN  /\ suggestion # authors[cur].name
           /\ \E c \in ChoiceInputs, answer \in MergeReplies(cur, suggestion) :
                 /\ Strip(c) = <<"2">>
                 /\ read' = <<c>> \o RepliesRead(cur, suggestion, answer)
                 /\ ApplyChange(cur, suggestion, answer)
    /\ Returned
    /\ UNCHANGED <<listVars, skipped, mode, queue, exports, appVars, arg, ret>>

\* option 3 with a non-empty name
ManualEdit ==
    /\ Reviewing("interactive")
    /\ \E c \in ChoiceInputs, line \in EditInputs :
          /\ Strip(c) = <<"3">>
          /\ Strip(line) # <<>>
          /\ \E answer \in MergeReplies(cur, Strip(line)) :
                /\ read' = <<c, line>> \o RepliesRead(cur, Strip(line), answer)
                /\ ApplyChange(cur, Strip(line), answer)
    /\ Returned
    /\ UNCHANGED <<listVars, skipped, mode, queue, exports, appVars, arg, ret>>

\* option 4
AddToWhitelist ==
    /\ Reviewing("interactive")
    /\ \E c \in ChoiceInputs : Strip(c) = <<"4">> /\ read' = <<c>>
    /\ LET notes == <<"U","s","e","r"," ","a","p","p","r","o","v","e","d">>
       IN  /\ wl_names' = WhitelistAdded(wl_names, authors[cur].name)
           /\ wl_metadata' = MetadataAdded(wl_metadata, authors[cur].name, notes, clock)
    /\ whitelist_file' = WhitelistSaved(wl_names', wl_metadata')
    /\ clock' = clock + 1
    /\ skipped' = Append(skipped, authors[cur].name)
    /\ idx' = idx + 1
    /\ UNCHANGED <<storeVars, bl_exact_names, bl_patterns, blacklist_file, ledgerVars, changes_made,
                   mode, queue, exports, appVars, pc, arg, ret>>

\* option 5
AddToBlacklist ==
    /\ Reviewing("interactive")
    /\ \E c \in ChoiceInputs, reason \in {<<>>, <<"s","p","a","m">>}, delete \in Answers :
          /\ Strip(c) = <<"5">>
          /\ read' = <<c, reason, delete>>
          /\ bl_exact_names' = bl_exact_names \cup {authors[cur].name}
          /\ blacklist_file' = BlacklistSaved(bl_patterns, bl_exact_names')
          /\ IF ~IsYes(delete)
             THEN /\ pc' = pc
                  /\ UNCHANGED <<authors, changes_made>>
             ELSE IF HasQuotes(quotes, cur)
             THEN /\ pc' = "failed"
                  /\ UNCHANGED <<authors, changes_made>>
             ELSE /\ authors' = AuthorDeleted(authors, cur)
                  /\ changes_made' = Append(changes_made, <<"DELETED", authors[cur].name>>)
                  /\ pc' = pc
    /\ Returned
    /\ UNCHANGED <<quotes, wl_names, wl_metadata, whitelist_file, bl_patterns, ledgerVars, skipped,
                   mode, queue, exports, appVars, clock, arg, ret>>

\* option 6, confirmed
DeleteAuthor ==
    /\ Reviewing("interactive")
    /\ \E c \in ChoiceInputs, confirm \in Answers :
          /\ Strip(c) = <<"6">>
          /\ IsYes(confirm)
          /\ read' = <<c, confirm>>
    /\ IF HasQuotes(quotes, cur)
       THEN /\ pc' = "failed"
            /\ UNCHANGED <<authors, changes_made, ledgerVars, clock>>
       ELSE /\ authors' = AuthorDeleted(authors, cur)
            /\ changes_made' = Append(changes_made, <<"DELETED", authors[cur].name>>)
            /\ ChangeLogAdd("DELETED", cur, authors[cur].name, <<>>, NoName)
            /\ pc' = pc
    /\ Returned
    /\ UNCHANGED <<quotes, listVars, skipped, mode, queue, exports, appVars, arg, ret>>

\* option 7
SkipAuthor ==
    /\ Reviewing("interactive")
    /\ \E c \in ChoiceInputs : Strip(c) = <<"7">> /\ read' = <<c>>
    /\ skipped' = Append(skipped, authors[cur].name)
    /\ idx' = idx + 1
    /\ UNCHANGED <<storeVars, listVars, ledgerVars, changes_made, mode, queue,
                   exports, appVars, pc, clock, arg, ret>>

\* Variant: an inapplicable input is treated as "skip"
Reprompt_Skips ==
    /\ Reviewing("interactive")
    /\ \E c \in ChoiceInputs :
          /\ Strip(c) \notin {<<"1">>, <<"2">>, <<"3">>, <<"4">>, <<"5">>, <<"6">>, <<"7">>}
          /\ read' = <<c>>
    /\ skipped' = Append(skipped, authors[cur].name)
    /\ idx' = idx + 1
    /\ UNCHANGED <<storeVars, listVars, ledgerVars, changes_made, mode, queue,
                   exports, appVars, pc, clock, arg, ret>>

\* the branches of the menu loop that fall through to the next iteration
Reprompt ==
    /\ Reviewing("interactive")
    /\ \E c \in ChoiceInputs :
          \/ /\ Strip(c) \notin {<<"1">>, <<"2">>, <<"3">>, <<"4">>, <<"5">>, <<"6">>, <<"7">>}
             /\ read' = <<c>>
          \/ /\ Strip(c) = <<"2">>
             /\ suggest_format(authors[cur].name) = authors[cur].name
             /\ read' = <<c>>
          \/ /\ Strip(c) = <<"3">>
             /\ \E line \in EditInputs : Strip(line) = <<>> /\ read' = <<c, line>>
          \/ /\ Strip(c) = <<"6">>
             /\ \E confirm \in Answers : ~IsYes(confirm) /\ read' = <<c, confirm>>
    /\ UNCHANGED <<storeVars, listVars, ledgerVars, loopVars, exports, appVars, pc, clock, arg, ret>>

\* one iteration of the run_batch loop
BatchStep ==
    /\ Reviewing("batch")
    /\ LET name == authors[cur].name
           suggestion == suggest_format(name)
       IN  IF suggestion = name
           THEN /\ read' = <<>>
                /\ UNCHANGED <<storeVars, ledgerVars, clock, changes_made, pc>>
           ELSE IF ~author_exists(authors, suggestion)
           THEN \E answer \in MergeReplies(cur, suggestion) :
                   /\ read' = RepliesRead(cur, suggestion, answer)
                   /\ ApplyChange(cur, suggestion, answer)
           ELSE /\ read' = <<>>
                /\ MergeAuthors(cur, get_by_name(authors, suggestion))
                /\ UNCHANGED <<changes_made, pc>>
    /\ Returned
    /\ UNCHANGED <<listVars, skipped, mode, queue, exports, appVars, arg, ret>>

\* print_summary once the loop is over
PrintSummary ==
    /\ pc = "review"
    /\ idx = Len(queue)
    /\ \E a1, a2, a3 \in { <<"y","e","s">>, <<"n","o">> } :
          /\ read' = <<a1, a2, a3>>
          /\ exports' =
                [changelog |-> IF IsYes(a1) THEN ChangeLogExport(changes)
                               ELSE exports.changelog,
                 whitelist |-> IF IsYes(a2)
                               THEN [names |-> wl_names, metadata |-> wl_metadata]
                               ELSE exports.whitelist,
                 blacklist |-> IF IsYes(a3)
                               THEN [patterns |-> bl_patterns, exact_names |-> bl_exact_names]
                               ELSE exports.blacklist]
          /\ UNCHANGED appVars
    /\ pc' = "done"
    /\ UNCHANGED <<storeVars, listVars, ledgerVars, loopVars, clock, arg, ret>>

Next ==
    \/ RunInteractive
    \/ RunBatch
    \/ Keep
    \/ AcceptSuggestion
    \/ ManualEdit
    \/ AddToWhitelist
    \/ AddToBlacklist
    \/ DeleteAuthor
    \/ SkipAuthor
    \/ Reprompt
    \/ BatchStep
    \/ PrintSummary

Spec == Init /\ [][Next]_vars

\* the options of process_author that end the prompt loop of an author
Applicable ==
    \/ Keep
    \/ AcceptSuggestion
    \/ ManualEdit
    \/ AddToWhitelist
    \/ AddToBlacklist
    \/ DeleteAuthor
    \/ SkipAuthor

\* The review loop with a user who does not answer 'Invalid option' for ever:
\* input() blocks until a line is entered, and the for loop of run_interactive
\* goes on to the next author, and to the summary, as soon as a handler returns
SpecFair == Init /\ [][Next]_vars /\ WF_vars(Applicable) /\ WF_vars(PrintSummary)

\* The review loop over either author table: the one above, or one with an
\* author whose name suggest_format empties
QuotedNames == << <<"\"","\"","\"">>, <<"E","f">> >>

InitQuoted ==
    /\ InitSanitizer
    /\ \E flags \in [1..Len(QuotedNames) -> BOOLEAN] :
          authors = [a \in 1..Len(QuotedNames) |-> [name |-> QuotedNames[a], edit |-> flags[a]]]
    /\ quotes \in [1..NumQuotes -> 1..Len(QuotedNames)]
    /\ arg = <<>> /\ ret = <<>>
    /\ pc = "menu"

SpecNames == (Init \/ InitQuoted) /\ [][Next]_vars

-----------------------------------------------------------------------------
(* The review loop with a process crash between the durable writes of a     *)
(* handler: each commit and each ledger save is one write.                  *)

\* the names the current handler can pass to _apply_change
Proposals ==
    LET name == authors[cur].name
    IN  {p \in {suggest_format(name)} : p # name}
          \cup (IF mode = "interactive" THEN {Strip(l) : l \in EditInputs} \ {<<>>} ELSE {})

\* the author that the current handler merges into, if it merges
MergeTarget(p) ==
    IF mode = "batch" /\ author_exists(authors, p)
    THEN get_by_name(authors, p)
    ELSE IF ChangeBranch(cur, p) = "exists" THEN get_by_name(authors, Strip(p))
    ELSE NoAuthor

\* _apply_change has committed the rename and not yet called changelog.add
CrashAfterRename ==
    /\ pc = "review" /\ idx < Len(queue)
    /\ \E p \in Proposals :
          /\ MergeTarget(p) = NoAuthor
          /\ ChangeBranch(cur, p) = "rename"
          /\ authors' = Renamed(authors, cur, Strip(p))
    /\ pc' = "crashed"
    /\ UNCHANGED <<quotes, listVars, ledgerVars, loopVars, read, exports, appVars, clock, arg, ret>>

\* merge_authors has made its first commit, or both, and not yet called changelog.add
CrashDuringMerge ==
    /\ pc = "review" /\ idx < Len(queue)
    /\ \E p \in Proposals, commits \in {1, 2} :
          /\ MergeTarget(p) # NoAuthor
          /\ quotes' = QuotesMoved(quotes, cur, MergeTarget(p))
          /\ authors' = IF commits = 2 THEN AuthorDeleted(authors, cur) ELSE authors
    /\ pc' = "crashed"
    /\ UNCHANGED <<listVars, ledgerVars, loopVars, read, exports, appVars, clock, arg, ret>>

\* option 6 has committed the deletion and not yet called changelog.add
CrashAfterDelete ==
    /\ Reviewing("interactive")
    /\ ~HasQuotes(quotes, cur)
    /\ authors' = AuthorDeleted(authors, cur)
    /\ pc' = "crashed"
    /\ UNCHANGED <<quotes, listVars, ledgerVars, loopVars, read, exports, appVars, clock, arg, ret>>

\* the process dies while it waits for input
CrashAtPrompt ==
    /\ pc \in {"menu", "review"}
    /\ pc' = "crashed"
    /\ UNCHANGED <<storeVars, listVars, ledgerVars, loopVars, read, exports, appVars, clock, arg, ret>>

NextCrash ==
    \/ Next
    \/ CrashAfterRename
    \/ CrashDuringMerge
    \/ CrashAfterDelete
    \/ CrashAtPrompt

SpecCrash == Init /\ [][NextCrash]_vars

-----------------------------------------------------------------------------
(* Specification of the manager queries that take a limit (db.py) *)

MaxLimit == 2

\* query.limit(limit).all(); the engine is SQLite, where a negative LIMIT
\* puts no bound on the result
Limited(rows, limit) ==
    IF limit < 0 \/ limit >= Len(rows) THEN rows ELSE SubSeq(rows, 1, limit)

\* QuoteManager.search: the limit is looked at only when it is truthy
search(rows, limit) ==
    IF limit # 0
    THEN IF limit < 1 THEN <<"ValidationError">> ELSE <<"ok", Limited(rows, limit)>>
    ELSE <<"ok", rows>>

\* by_author, by_category and both needs_edit: "if limit: query.limit(limit)"
by_author(rows, limit) ==
    IF limit # 0 THEN <<"ok", Limited(rows, limit)>> ELSE <<"ok", rows>>

\* shortest, longest, most_favorited, recent, top_quoted: limit < 1 raises
shortest(rows, limit) ==
    IF limit < 1 THEN <<"ValidationError">> ELSE <<"ok", Limited(rows, limit)>>

\* the rows a query over the quotes yields before LIMIT: the quotes in 'keep'
QuoteRows(keep) == SelectSeq([q \in DOMAIN quotes |-> q], LAMBDA q : q \in keep)

InitQuery ==
    /\ InitSanitizer
    /\ \E flags \in [1..Len(InitNames) -> BOOLEAN] :
          authors = [a \in 1..Len(InitNames) |-> [name |-> InitNames[a], edit |-> flags[a]]]
    /\ quotes \in [1..NumQuotes -> 1..Len(InitNames)]
    /\ arg = <<>> /\ ret = <<>>
    /\ pc = "db"

QueryReturned(op, limit, result) ==
    /\ arg' = <<op, limit>>
    /\ ret' = result
    /\ pc' = "query"
    /\ UNCHANGED <<authors, quotes, changes, log_file, listVars, changes_made,
                   skipped, mode, queue, idx, read, exports, appVars, clock>>

CallSearch ==
    \E limit \in (-1)..MaxLimit, keep \in SUBSET DOMAIN quotes :
        QueryReturned("quotes.search", limit, search(QuoteRows(keep), limit))

CallFiltered ==
    \E limit \in (-1)..MaxLimit, keep \in SUBSET DOMAIN quotes,
       op \in {"quotes.by_author", "quotes.by_category", "quotes.needs_edit",
               "authors.needs_edit"} :
        LET rows == IF op = "authors.needs_edit" THEN needs_edit(authors, 1)
                    ELSE QuoteRows(keep)
        IN  QueryReturned(op, limit, by_author(rows, limit))

CallRanked ==
    \E limit \in (-1)..MaxLimit,
       op \in {"quotes.shortest", "quotes.longest", "quotes.most_favorited",
               "quotes.recent", "authors.top_quoted"} :
        LET rows == IF op = "authors.top_quoted"
                    THEN SelectSeq([a \in 1..Len(InitNames) |-> a],
                                   LAMBDA a : HasQuotes(quotes, a))
                    ELSE QuoteRows(DOMAIN quotes)
        IN  QueryReturned(op, limit, shortest(rows, limit))

NextQuery ==
    \/ CallSearch
    \/ CallFiltered
    \/ CallRanked

SpecQuery == InitQuery /\ [][NextQuery]_vars

-----------------------------------------------------------------------------
(* Specification of the user and favorites managers (db.py) *)

MaxUsers == 3

MIN_PASSWORD_LENGTH == 6

\* Variant: create without the look-up of an existing username or email
create_NoLookup(us, username, email, password) ==
    IF Len(username) < 3 THEN "ValidationError"
    ELSE IF ~Contains(email, <<"@">>) THEN "ValidationError"
    ELSE IF Len(password) < MIN_PASSWORD_LENGTH THEN "ValidationError"
    ELSE "ok"

\* UserManager.create: the error it raises, "ok" when it returns the user
create(us, username, email, password) ==
    IF Len(username) < 3 THEN "ValidationError"
    ELSE IF ~Contains(email, <<"@">>) THEN "ValidationError"
    ELSE IF Len(password) < MIN_PASSWORD_LENGTH THEN "ValidationError"
    ELSE IF \E u \in DOMAIN us : us[u].username = username \/ us[u].email = email
         THEN "DuplicateError"
    ELSE "ok"

\* list.remove(x): the first occurrence goes
ListRemoved(list, x) ==
    LET k == MinOf({i \in 1..Len(list) : list[i] = x})
    IN  SubSeq(list, 1, k - 1) \o SubSeq(list, k + 1, Len(list))

\* the relationship list and the table that item_type selects
FavoritesField(item_type) ==
    IF item_type = "quote" THEN "favorite_quotes" ELSE "favorite_authors"

ItemExists(item_type, item_id) ==
    IF item_type = "quote" THEN item_id \in DOMAIN quotes ELSE item_id \in DOMAIN authors

\* Variant: add does not look for the item among the favorites
FavoritesAdd_NoLookup(us, user, item_id, item_type) ==
    IF user \notin DOMAIN us THEN "NotFoundError"
    ELSE IF item_type \notin {"quote", "author"} THEN "ValidationError"
    ELSE IF ~ItemExists(item_type, item_id) THEN "NotFoundError"
    ELSE "ok"

\* FavoritesManager.add: the error it raises, "ok" when it commits
FavoritesAdd(us, user, item_id, item_type) ==
    IF user \notin DOMAIN us THEN "NotFoundError"
    ELSE IF item_type \notin {"quote", "author"} THEN "ValidationError"
    ELSE IF ~ItemExists(item_type, item_id) THEN "NotFoundError"
    ELSE IF \E k \in DOMAIN us[user][FavoritesField(item_type)] :
                us[user][FavoritesField(item_type)][k] = item_id
         THEN "DuplicateError"
    ELSE "ok"

\* FavoritesManager.remove: the error it raises, "ok" when it commits
FavoritesRemove(us, user, item_id, item_type) ==
    IF user \notin DOMAIN us THEN "NotFoundError"
    ELSE IF item_type \notin {"quote", "author"} THEN "ValidationError"
    ELSE IF ~ItemExists(item_type, item_id) THEN "NotFoundError"
    ELSE IF \A k \in DOMAIN us[user][FavoritesField(item_type)] :
                us[user][FavoritesField(item_type)][k] # item_id
         THEN "NotFoundError"
    ELSE "ok"

InitUsers ==
    /\ InitSanitizer
    /\ authors = [a \in 1..2 |-> [name |-> InitNames[a], edit |-> FALSE]]
    /\ quotes = [q \in 1..NumQuotes |-> 1]
    /\ arg = <<>> /\ ret = <<>>
    /\ pc = "db"

UsersFrame ==
    UNCHANGED <<storeVars, listVars, ledgerVars, loopVars, read, exports, clock,
                importVars>>

CallCreate ==
    /\ Len(users) < MaxUsers
    /\ \E username \in { <<"a","b">>, <<"b","o","b">>, <<"a","m","y">> },
          email \in { <<"b","a","d">>, <<"b","@","x">>, <<"a","@","x">> },
          password \in { <<>>, <<"p","w","d","1","2">>, <<"p","w","d","1","2","3">> } :
          LET result == create(users, username, email, password)
          IN  /\ users' = IF result = "ok"
                          THEN Append(users, [username |-> username, email |-> email,
                                              favorite_quotes |-> <<>>,
                                              favorite_authors |-> <<>>])
                          ELSE users
              /\ arg' = <<username, email, password>>
              /\ ret' = <<result>>
    /\ pc' = "create"
    /\ UsersFrame

CallFavoritesAdd ==
    /\ \E user \in {1, MaxUsers + 1}, item_id \in 1..(NumQuotes + 1),
          item_type \in {"quote", "author", "book"} :
          LET result == FavoritesAdd(users, user, item_id, item_type)
              field == FavoritesField(item_type)
          IN  /\ users' = IF result = "ok"
                          THEN [users EXCEPT ![user][field] = Append(@, item_id)]
                          ELSE users
              /\ arg' = <<user, item_id, item_type>>
              /\ ret' = <<result>>
    /\ pc' = "favorites.add"
    /\ UsersFrame

CallFavoritesRemove ==
    /\ \E user \in {1, MaxUsers + 1}, item_id \in 1..(NumQuotes + 1),
          item_type \in {"quote", "author", "book"} :
          LET result == FavoritesRemove(users, user, item_id, item_type)
              field == FavoritesField(item_type)
          IN  /\ users' = IF result = "ok"
                          THEN [users EXCEPT ![user][field] = ListRemoved(@, item_id)]
                          ELSE users
              /\ arg' = <<user, item_id, item_type>>
              /\ ret' = <<result>>
    /\ pc' = "favorites.remove"
    /\ UsersFrame

NextUsers ==
    \/ CallCreate
    \/ CallFavoritesAdd
    \/ CallFavoritesRemove

SpecUsers == InitUsers /\ [][NextUsers]_vars

-----------------------------------------------------------------------------
(* Specification of the importers: import_thequoteshub.py, import_quote.py *)

LastPage == 2       \* the API holds no data after this page

\* the 'text' fields of the quotes on a page, the 'quote' fields of the
\* results of a search: a text twice, a text with and without a trailing
\* space, and an empty text
ItemLists ==
    { << <<"a">>, <<"a">> >>, << <<"a">>, <<"a"," ">> >>, << <<>> >> }

MaxRuns == 2        \* calls of an import function in one behaviour

NumCategories == 2  \* names in categories.json

start_page == 1

MAX_EMPTY_PAGES == 3

\* the progress file while save_progress is writing it: opened with 'w',
\* the JSON text not yet complete
Partial == [state |-> "partial"]

\* no progress file exists
NoProgress == [state |-> "absent"]

\* the import function has returned: its local variables are gone
\* what the final summary of import_all_pages is printed from
Summary(r) == [fn |-> r.fn, runs |-> r.runs, max_pages |-> r.max_pages,
               pages_processed |-> r.pages_processed, reports |-> r.reports]

Ended(r) == [fn |-> r.fn, runs |-> r.runs]

\* Variant: no look-up of the text before the insert
import_quote_NoLookup(known, quote_text) ==
    IF quote_text = <<>> THEN NoName ELSE quote_text

\* import_quote / import_quote_result for a text: None for an empty text and
\* for a text that quote_exists finds, the new quote otherwise
import_quote(known, quote_text) ==
    IF quote_text = <<>> \/ quote_text \in known THEN NoName ELSE quote_text

\* the quotes added to the session by the loop over the items of a page or of
\* a search; a query flushes the session, so quote_exists sees them
RECURSIVE ImportItems(_, _, _)
ImportItems(known, items, strip) ==
    IF items = <<>> THEN <<>>
    ELSE LET quote == import_quote(known, IF strip THEN Strip(Head(items)) ELSE Head(items))
         IN  IF quote = NoName THEN ImportItems(known, Tail(items), strip)
             ELSE <<quote>> \o ImportItems(known \cup {quote}, Tail(items), strip)

\* what fetch_quotes_page returns: None, a list of quotes, or a dict with an
\* empty 'quotes' list
Responses(page_number) ==
    IF page_number > LastPage THEN { [kind |-> "dict", quotes |-> <<>>] }
    ELSE { [kind |-> "None", quotes |-> <<>>], [kind |-> "dict", quotes |-> <<>>],
           [kind |-> "list", quotes |-> <<>>] }
         \cup { [kind |-> "list", quotes |-> q] : q \in ItemLists }

\* 'if not data': the fetch returned None, or nothing at all
FetchFailed(data) == data.kind = "None" \/ (data.kind = "list" /\ data.quotes = <<>>)

\* import_page up to its commit: the result it is about to return and the
\* quotes it added to the session
import_page(known, data) ==
    IF FetchFailed(data)
    THEN [success |-> 0, skip |-> 0, error |-> 1, empty |-> FALSE, added |-> <<>>]
    ELSE IF data.quotes = <<>>
    THEN [success |-> 0, skip |-> 0, error |-> 0, empty |-> TRUE, added |-> <<>>]
    ELSE LET added == ImportItems(known, data.quotes, FALSE)
         IN  [success |-> Len(added), skip |-> Len(data.quotes) - Len(added),
              error |-> 0, empty |-> FALSE, added |-> added]

\* save_progress(last_page, total_imported, total_failed, total_skipped)
Progress(last_page) ==
    [state |-> "saved", last_page |-> last_page, total_imported |-> run.total_imported,
     total_failed |-> run.total_failed, total_skipped |-> run.total_skipped]

InitImport ==
    /\ InitSanitizer
    /\ authors = <<>> /\ quotes = <<>>
    /\ arg = <<>> /\ ret = <<>>
    /\ pc = "shell"

ImportFrame ==
    UNCHANGED <<storeVars, listVars, ledgerVars, loopVars, read, exports, clock,
                users, ret>>

\* import_all_pages up to the loop (lines 184-220), in a new process: the
\* script import_thequoteshub.py is run, and run again
StartAllPages ==
    /\ pc \in {"shell", "interrupted", "finished", "crashed"}
    /\ run.fn \in {"none", "import_all_pages"}
    /\ run.runs < MaxRuns
    /\ \E resume \in BOOLEAN, max_pages \in {0, 2} :
          LET fresh == [fn |-> "import_all_pages", runs |-> run.runs + 1,
                        max_pages |-> max_pages, current_page |-> start_page,
                        pages_processed |-> 0, consecutive_empty_pages |-> 0,
                        total_imported |-> 0, total_skipped |-> 0, total_failed |-> 0,
                        result |-> <<>>, reports |-> <<>>]
          IN  IF resume /\ progress_file.pages = Partial
              THEN \* json.load raises: the call ends before the loop
                   /\ run' = [fn |-> "import_all_pages", runs |-> run.runs + 1]
                   /\ pc' = "crashed"
                   /\ UNCHANGED <<progress_file, processed>>
              ELSE IF resume /\ progress_file.pages # NoProgress
              THEN /\ run' = [fresh EXCEPT
                                !.current_page = progress_file.pages.last_page + 1,
                                !.total_imported = progress_file.pages.total_imported,
                                !.total_failed = progress_file.pages.total_failed,
                                !.total_skipped = progress_file.pages.total_skipped]
                   /\ pc' = "loop"
                   /\ UNCHANGED <<progress_file, processed>>
              ELSE /\ run' = fresh
                   /\ progress_file' = IF resume THEN progress_file
                                       ELSE [progress_file EXCEPT !.pages = NoProgress]
                   /\ processed' = {x \in processed : x[1] # "page"}
                   /\ pc' = "loop"
    /\ pending' = <<>>
    /\ UNCHANGED texts
    /\ UNCHANGED arg
    /\ ImportFrame

\* import_page(current_page) up to its commit
ImportPage ==
    /\ pc = "loop"
    /\ run.fn = "import_all_pages"
    /\ ~(run.max_pages # 0 /\ run.pages_processed >= run.max_pages)
    /\ \E data \in Responses(run.current_page) :
          LET result == import_page({texts[k] : k \in DOMAIN texts}, data)
          IN  /\ pending' = result.added
              /\ run' = [run EXCEPT !.result = [success |-> result.success,
                                                skip |-> result.skip,
                                                error |-> result.error,
                                                empty |-> result.empty]]
              /\ arg' = <<run.current_page, data>>
    /\ pc' = "page"
    /\ UNCHANGED <<texts, progress_file, processed>>
    /\ ImportFrame

\* session.commit() of import_page or search_and_import and its return; a
\* failed commit is rolled back, but the quotes that a commit in
\* get_or_create_author wrote stay
CommitPage ==
    /\ pc = "page"
    /\ \/ /\ texts' = texts \o pending
          /\ UNCHANGED run
       \/ /\ pending # <<>>
          /\ \E k \in 0..(Len(pending) - 1) : texts' = texts \o SubSeq(pending, 1, k)
          /\ run' = [run EXCEPT !.result = [success |-> 0, skip |-> run.result.skip,
                                             error |-> run.result.success,
                                             empty |-> FALSE]]
    /\ pending' = <<>>
    /\ processed' = processed \cup {IF run.fn = "import_all_pages"
                                     THEN <<"page", run.current_page>>
                                     ELSE <<"category", run.idx>>}
    /\ pc' = "imported"
    /\ UNCHANGED progress_file
    /\ UNCHANGED arg
    /\ ImportFrame

\* Variant: the count of empty pages in a row is kept over a page that is not empty
EmptyPages_NoReset(result, consecutive_empty_pages) ==
    IF result.empty THEN consecutive_empty_pages + 1 ELSE consecutive_empty_pages

\* lines 236-245: the count of empty pages in a row after a page
EmptyPages(result, consecutive_empty_pages) ==
    IF result.empty THEN consecutive_empty_pages + 1 ELSE 0

\* lines 231-252: the totals, the count of empty pages in a row, and the
\* progress file once a minute; 'reports' records what each page reported
UpdateStats ==
    /\ pc = "imported"
    /\ run.fn = "import_all_pages"
    /\ LET result == run.result
           empties == EmptyPages(result, run.consecutive_empty_pages)
           updated == [run EXCEPT
                         !.total_imported = @ + result.success,
                         !.total_skipped = @ + result.skip,
                         !.total_failed = @ + result.error,
                         !.consecutive_empty_pages = empties,
                         !.reports = Append(@, IF result.empty THEN "empty"
                                                ELSE IF FetchFailed(arg[2]) THEN "failed"
                                                ELSE "data")]
       IN  /\ run' = updated
           /\ IF result.empty /\ empties >= MAX_EMPTY_PAGES
              THEN pc' = "complete" /\ UNCHANGED progress_file
              ELSE \/ pc' = "advance" /\ UNCHANGED progress_file
                   \/ pc' = "saving" /\ progress_file' = [progress_file EXCEPT !.pages = Partial]
    /\ UNCHANGED <<texts, pending, processed>>
    /\ UNCHANGED arg
    /\ ImportFrame

\* save_progress(current_page, ...) writes the file out
SaveProgress ==
    /\ pc = "saving"
    /\ run.fn = "import_all_pages"
    /\ progress_file' = [progress_file EXCEPT !.pages = Progress(run.current_page)]
    /\ pc' = "advance"
    /\ UNCHANGED <<texts, pending, run, processed>>
    /\ UNCHANGED arg
    /\ ImportFrame

\* lines 263-267
NextPage ==
    /\ pc = "advance"
    /\ run.fn = "import_all_pages"
    /\ run' = [run EXCEPT !.current_page = @ + 1, !.pages_processed = @ + 1]
    /\ pc' = "loop"
    /\ UNCHANGED <<texts, pending, progress_file, processed>>
    /\ UNCHANGED arg
    /\ ImportFrame

\* the loop is left by a break: summary and clear_progress (lines 288-300)
FinishAllPages ==
    /\ run.fn = "import_all_pages"
    /\ \/ pc = "complete"
       \/ pc = "loop" /\ run.max_pages # 0 /\ run.pages_processed >= run.max_pages
    /\ progress_file' = [progress_file EXCEPT !.pages = NoProgress]
    /\ run' = Summary(run)
    /\ pc' = "finished"
    /\ UNCHANGED <<texts, pending, processed>>
    /\ UNCHANGED arg
    /\ ImportFrame

\* KeyboardInterrupt or another exception anywhere in the loop: the handler
\* saves current_page - 1 and returns; the process ends with what its session
\* holds uncommitted, of which a commit in get_or_create_author may have
\* written the first quotes
InterruptAllPages ==
    /\ pc \in {"loop", "page", "imported", "saving", "advance"}
    /\ run.fn = "import_all_pages"
    /\ progress_file' = [progress_file EXCEPT !.pages = Progress(run.current_page - 1)]
    /\ \E k \in 0..Len(pending) : texts' = texts \o SubSeq(pending, 1, k)
    /\ pending' = <<>>
    /\ run' = Ended(run)
    /\ pc' = "interrupted"
    /\ UNCHANGED processed
    /\ UNCHANGED arg
    /\ ImportFrame

\* what quote(search_term, limit) does: it raises, or returns no result, or
\* returns results whose 'quote' fields are these
SearchResults ==
    { [kind |-> "raise", quotes |-> <<>>], [kind |-> "list", quotes |-> <<>>] }
    \cup { [kind |-> "list", quotes |-> q] : q \in ItemLists }

\* search_and_import up to its commit
search_and_import(known, results) ==
    IF results.kind = "raise"
    THEN [success |-> 0, skip |-> 0, error |-> 1, added |-> <<>>]
    ELSE LET added == ImportItems(known, results.quotes, TRUE)
         IN  [success |-> Len(added), skip |-> Len(results.quotes) - Len(added),
              error |-> 0, added |-> added]

\* import_by_categories up to the loop (lines 183-214), in a new process:
\* the script import_quote.py is run, and run again
StartByCategories ==
    /\ pc \in {"shell", "interrupted", "finished", "crashed"}
    /\ run.fn \in {"none", "import_by_categories"}
    /\ run.runs < MaxRuns
    /\ \E resume \in BOOLEAN :
          LET fresh == [fn |-> "import_by_categories", runs |-> run.runs + 1, idx |-> 0,
                        total_imported |-> 0, total_skipped |-> 0, total_failed |-> 0,
                        result |-> <<>>]
          IN  IF resume /\ progress_file.categories = Partial
              THEN \* json.load raises: the call ends before the loop
                   /\ run' = [fn |-> "import_by_categories", runs |-> run.runs + 1]
                   /\ pc' = "crashed"
                   /\ UNCHANGED <<progress_file, processed>>
              ELSE IF resume /\ progress_file.categories # NoProgress
              THEN /\ run' = [fresh EXCEPT
                                !.idx = progress_file.categories.last_category_index + 1,
                                !.total_imported = progress_file.categories.total_imported,
                                !.total_failed = progress_file.categories.total_failed,
                                !.total_skipped = progress_file.categories.total_skipped]
                   /\ pc' = "loop"
                   /\ UNCHANGED <<progress_file, processed>>
              ELSE /\ run' = fresh
                   /\ progress_file' = IF resume THEN progress_file
                                       ELSE [progress_file EXCEPT !.categories = NoProgress]
                   /\ processed' = {x \in processed : x[1] # "category"}
                   /\ pc' = "loop"
    /\ pending' = <<>>
    /\ UNCHANGED texts
    /\ UNCHANGED arg
    /\ ImportFrame

\* search_and_import(category_names[idx]) up to its commit
SearchAndImport ==
    /\ pc = "loop"
    /\ run.fn = "import_by_categories"
    /\ run.idx < NumCategories
    /\ \E results \in SearchResults :
          LET result == search_and_import({texts[k] : k \in DOMAIN texts}, results)
          IN  /\ pending' = result.added
              /\ run' = [run EXCEPT !.result = [success |-> result.success,
                                                skip |-> result.skip,
                                                error |-> result.error,
                                                empty |-> FALSE]]
              /\ arg' = <<run.idx, results>>
    /\ pc' = "page"
    /\ UNCHANGED <<texts, progress_file, processed>>
    /\ ImportFrame

\* lines 222-228: the totals, and save_progress(idx, ...) opens the file
SaveCategory ==
    /\ pc = "imported"
    /\ run.fn = "import_by_categories"
    /\ run' = [run EXCEPT !.total_imported = @ + run.result.success,
                          !.total_skipped = @ + run.result.skip,
                          !.total_failed = @ + run.result.error]
    /\ progress_file' = [progress_file EXCEPT !.categories = Partial]
    /\ pc' = "saving"
    /\ UNCHANGED <<texts, pending, processed>>
    /\ UNCHANGED arg
    /\ ImportFrame

\* save_progress writes the file out; the loop goes to the next category
NextCategory ==
    /\ pc = "saving"
    /\ run.fn = "import_by_categories"
    /\ progress_file' =
          [progress_file EXCEPT !.categories =
              [state |-> "saved", last_category_index |-> run.idx,
               total_imported |-> run.total_imported, total_failed |-> run.total_failed,
               total_skipped |-> run.total_skipped]]
    /\ run' = [run EXCEPT !.idx = @ + 1]
    /\ pc' = "loop"
    /\ UNCHANGED <<texts, pending, processed>>
    /\ UNCHANGED arg
    /\ ImportFrame

\* the category list is exhausted: summary and clear_progress (lines 253-265)
FinishByCategories ==
    /\ pc = "loop"
    /\ run.fn = "import_by_categories"
    /\ run.idx >= NumCategories
    /\ progress_file' = [progress_file EXCEPT !.categories = NoProgress]
    /\ run' = Ended(run)
    /\ pc' = "finished"
    /\ UNCHANGED <<texts, pending, processed>>
    /\ UNCHANGED arg
    /\ ImportFrame

\* KeyboardInterrupt or another exception anywhere in the loop: the handler
\* prints and returns, the progress file stays as it is
InterruptByCategories ==
    /\ pc \in {"loop", "page", "imported", "saving"}
    /\ run.fn = "import_by_categories"
    /\ pc = "loop" => run.idx < NumCategories
    /\ \E k \in 0..Len(pending) : texts' = texts \o SubSeq(pending, 1, k)
    /\ pending' = <<>>
    /\ run' = Ended(run)
    /\ pc' = "interrupted"
    /\ UNCHANGED <<progress_file, processed>>
    /\ UNCHANGED arg
    /\ ImportFrame

NextImport ==
    \/ StartAllPages
    \/ ImportPage
    \/ CommitPage
    \/ UpdateStats
    \/ SaveProgress
    \/ NextPage
    \/ FinishAllPages
    \/ InterruptAllPages
    \/ StartByCategories
    \/ SearchAndImport
    \/ SaveCategory
    \/ NextCategory
    \/ FinishByCategories
    \/ InterruptByCategories

SpecImport == InitImport /\ [][NextImport]_vars

-----------------------------------------------------------------------------
(* Properties of the name classifier (SpecClassify) *)

TemplateOrder ==
    <<"abbreviation", "name_with_middle_initial", "full_name", "title", "scripture">>

TemplateMatches(t, name) ==
    ReMatch(PATTERNS[CHOOSE k \in 1..Len(PATTERNS) : PATTERNS[k].name = t].pattern, name)

\* C10: validate returns exactly one outcome: (True, t) for the first template t,
\* in the order abbreviation, name_with_middle_initial, full_name, title,
\* scripture, that matches the name, and (False, 'unknown') if and only if no
\* template matches; a name matching both full_name and title is full_name.
C10_FirstTemplateWins ==
    pc = "validate" =>
        LET hits == {k \in 1..Len(TemplateOrder) : TemplateMatches(TemplateOrder[k], arg)}
        IN  /\ hits # {} => ret = <<TRUE, TemplateOrder[MinOf(hits)]>>
            /\ hits = {} <=> ret = <<FALSE, "unknown">>
            /\ (TemplateMatches("full_name", arg) /\ TemplateMatches("title", arg))
                  => ret = <<TRUE, "full_name">>

C10_Witness ==
    /\ pc = "validate"
    /\ ret = <<TRUE, "full_name">>
    /\ TemplateMatches("title", arg)

\* C18: validate returns (True, 'abbreviation') for 'C. S. Lewis',
\* (True, 'full_name') for 'John Michael Gottman', (True, 'scripture') for
\* '1 Kings 1:12-14 (NIV)' and (False, 'unknown') for 'random$$$garbage'.
C18_ValidateExamples ==
    pc = "validate" =>
        /\ arg = ValidateExamples[1] => ret = <<TRUE, "abbreviation">>
        /\ arg = ValidateExamples[2] => ret = <<TRUE, "full_name">>
        /\ arg = ValidateExamples[3] => ret = <<TRUE, "scripture">>
        /\ arg = ValidateExamples[4] => ret = <<FALSE, "unknown">>

C18_Witness ==
    /\ pc = "validate"
    /\ arg = ValidateExamples[3]
    /\ ret = <<TRUE, "scripture">>

-----------------------------------------------------------------------------
(* Properties of the change ledger (SpecChangeLog) *)

IsPrefix(s, t) == Len(s) <= Len(t) /\ SubSeq(t, 1, Len(s)) = s

\* C6: the ledger is append-only: every operation leaves the old record list a
\* prefix of the new one; add extends it by exactly one record at the end, and
\* get_latest, get_by_type and export leave it unchanged.
C6_AppendOnly ==
    [][ /\ IsPrefix(changes, changes')
        /\ pc' = "add" => Len(changes') = Len(changes) + 1
        /\ pc' \in {"get_latest", "get_by_type", "export"} => changes' = changes
      ]_vars

C6_Witness ==
    /\ pc = "add"
    /\ Len(changes) = 3
    /\ changes[1].type = "RENAMED"
    /\ changes[2].type = "DELETED"
    /\ changes[3].type = "MERGED"

\* C17: for every ledger content and every n >= 0, get_latest(n) returns the
\* last min(n, number of records) records in insertion order; get_latest(0)
\* returns no records.
C17_LatestReturnsLastN ==
    pc = "get_latest" =>
        LET n == arg[1]
            m == IF n <= Len(changes) THEN n ELSE Len(changes)
        IN  /\ ret = SubSeq(changes, Len(changes) - m + 1, Len(changes))
            /\ n = 0 => ret = <<>>

-----------------------------------------------------------------------------
(* Properties of the garbage detector over the lists (SpecListMenu) *)

\* C2: a name on the allow-list gets (False, []) from is_likely_garbage, also
\* when it is on the deny-list (exact name or pattern) or trips other checks.
C2_AllowListOverrides ==
    (pc = "is_likely_garbage" /\ arg[1] \in wl_names) => ret = <<FALSE, <<>>>>

C2_Witness ==
    /\ pc = "is_likely_garbage"
    /\ arg[1] \in wl_names
    /\ arg[1] \in bl_exact_names
    /\ HeuristicIssues(arg[1]) # <<>>
    /\ ret = <<FALSE, <<>>>>

\* C11: for a name not on the allow-list, if validate(name) is (False, 'unknown')
\* then hasIssues is True and the last issue is "doesn't match standard
\* patterns"; if validate reports a match, that issue is absent.
C11_UnknownIsFlagged ==
    (pc = "is_likely_garbage" /\ arg[1] \notin wl_names) =>
        LET issue == <<"doesn't match standard patterns">>
            issues == ret[2]
        IN  IF validate(arg[1]) = <<FALSE, "unknown">>
            THEN ret[1] /\ issues # <<>> /\ issues[Len(issues)] = issue
            ELSE \A k \in 1..Len(issues) : issues[k] # issue

C11_Witness ==
    /\ pc = "is_likely_garbage"
    /\ arg[1] \notin wl_names
    /\ validate(arg[1]) = <<FALSE, "unknown">>
    /\ Len(ret[2]) = 3
    /\ ret[2][3] = <<"doesn't match standard patterns">>

\* the stored patterns that compile and are found in the name
PatternHits(name) ==
    {k \in 1..Len(bl_patterns) :
        /\ BlCompile(bl_patterns[k].pattern).t # "invalid"
        /\ ReSearch(BlCompile(bl_patterns[k].pattern), name)}

\* C12: for a name that is not an exact deny-list name and matches a deny
\* pattern, is_blacklisted returns (True, R) with R the reason of the first
\* matching pattern in insertion order, and for a name not allow-listed the
\* detector's first issue is 'blacklist match (R)'; an exact deny-list name is
\* reported as the exact match instead.
C12_FirstPatternReason ==
    /\ pc = "is_blacklisted" =>
          IF arg[1] \in bl_exact_names
          THEN ret = <<TRUE, "exact match in blacklist">>
          ELSE PatternHits(arg[1]) # {} =>
                  ret = <<TRUE, bl_patterns[MinOf(PatternHits(arg[1]))].reason>>
    /\ (pc = "is_likely_garbage" /\ arg[1] \notin wl_names) =>
          IF arg[1] \in bl_exact_names
          THEN ret[2][1] = <<"blacklist match", "exact match in blacklist">>
          ELSE PatternHits(arg[1]) # {} =>
                  ret[2][1] = <<"blacklist match",
                                bl_patterns[MinOf(PatternHits(arg[1]))].reason>>

C12_Witness ==
    /\ pc = "is_likely_garbage"
    /\ arg[1] \notin wl_names /\ arg[1] \notin bl_exact_names
    /\ PatternHits(arg[1]) = {1, 2}
    /\ bl_patterns[1].reason # bl_patterns[2].reason
    /\ ret[2][1] = <<"blacklist match", bl_patterns[1].reason>>

\* C15: add_pattern stores every pattern it is given, also one that is not a
\* valid regex; is_blacklisted returns a result for every stored list: an
\* invalid pattern counts as not matching and the patterns after it are still
\* checked, so the name is reported exactly when it is an exact name or some
\* valid pattern matches it.
C15_InvalidPatternSkipped ==
    /\ pc = "blacklist.add_pattern" =>
          (bl_patterns # <<>> /\ bl_patterns[Len(bl_patterns)] = arg[1])
    /\ pc = "is_blacklisted" =>
          /\ ret[1] = (arg[1] \in bl_exact_names \/ PatternHits(arg[1]) # {})
          /\ ~ret[1] => ret[2] = ""

C15_Witness ==
    /\ pc = "is_blacklisted"
    /\ Len(bl_patterns) = 2
    /\ BlCompile(bl_patterns[1].pattern).t = "invalid"
    /\ arg[1] \notin bl_exact_names
    /\ ret = <<TRUE, bl_patterns[2].reason>>

\* C14 as claimed: NameWhitelist.add of a name already on the allow-list leaves
\* the allow-list as it was: the same names and the same entry (added
\* timestamp and notes) for that name.
C14_ReAddChangesNothing ==
    [][ (pc' = "whitelist.add" /\ arg'[1] \in wl_names)
          => (wl_names' = wl_names /\ wl_metadata' = wl_metadata)
      ]_vars

\* C14 as amended: NameWhitelist.add of a name already on the allow-list leaves
\* the set of names as it was; with empty notes the entries are as they were,
\* with non-empty notes the entry of that name becomes the time of this call
\* and the notes given, and the other entries are as they were.
C14_ReAddKeepsNames ==
    [][ (pc' = "whitelist.add" /\ arg'[1] \in wl_names) =>
          /\ wl_names' = wl_names
          /\ arg'[2] = <<>> => wl_metadata' = wl_metadata
          /\ arg'[2] # <<>> =>
                /\ DOMAIN wl_metadata' = DOMAIN wl_metadata \cup {arg'[1]}
                /\ wl_metadata'[arg'[1]] = [added |-> clock, notes |-> arg'[2]]
                /\ \A n \in DOMAIN wl_metadata \ {arg'[1]} :
                      wl_metadata'[n] = wl_metadata[n]
      ]_vars

C14_Witness ==
    /\ pc = "whitelist.add"
    /\ arg[2] # <<>>
    /\ wl_names = {arg[1]}
    /\ wl_metadata[arg[1]].added = 1
    /\ clock = 2
    /\ bl_exact_names = {} /\ bl_patterns = <<>>



-----------------------------------------------------------------------------
(* Properties of the files (SpecPersist) *)

\* the set of the elements of a list
Elements(list) == {list[k] : k \in 1..Len(list)}

\* C16: after every ChangeLog.add the 'changes' list in the ledger file equals
\* the record list in memory, the record just added included; after every
\* add or remove of the allow-list and of the deny-list the list file holds
\* the names, entries and patterns that are in memory.
C16_FilesMatchMemory ==
    /\ pc = "add" => (changes # <<>> /\ log_file = changes)
    /\ pc \in {"whitelist.add", "whitelist.remove"} =>
          /\ Elements(whitelist_file.names) = wl_names
          /\ Len(whitelist_file.names) = Cardinality(wl_names)
          /\ whitelist_file.metadata = wl_metadata
    /\ pc \in {"blacklist.add_exact", "blacklist.add_pattern"} =>
          /\ Elements(blacklist_file.exact_names) = bl_exact_names
          /\ Len(blacklist_file.exact_names) = Cardinality(bl_exact_names)
          /\ blacklist_file.patterns = bl_patterns

C16_Witness ==
    /\ pc = "add"
    /\ Len(changes) = 2
    /\ log_file = changes

-----------------------------------------------------------------------------
(* Properties of the formatters (SpecFormat) *)

\* the name holds a run of three or more quote characters
QuoteGarbage(x) == Contains(x, <<"\"", "\"", "\"">>)

\* the name is neither a scripture reference nor a title: it is formatted by
\* format_abbreviations
AbbreviationPath(x) ==
    /\ ~ReMatch(Cat(<<Bol, Plus(Cls(DIGIT)), SpaceRun, Cls(UPPER)>>), x)
    /\ \/ ReMatch(Cat(<<Bol, Cls(UPPER), Ch("."), Cls(WS)>>), x)
       \/ ~ \/ IsUpper(x)
            \/ ReSearch(TitleKeyword, x)
            \/ Contains(x, <<":", " ">>)
            \/ /\ Count(x, " ") > 2
               /\ Cardinality({k \in 1..Len(x) : x[k] \in UPPER}) > 2

\* C13: suggest_format is idempotent on the names that take the
\* abbreviation-spacing path and hold no run of three or more quote
\* characters before or after the first application:
\* suggest_format(suggest_format(x)) = suggest_format(x), also for three or
\* more adjacent initials.
C13_SuggestIdempotent ==
    (/\ pc = "suggest_format again"
     /\ AbbreviationPath(read[1])
     /\ ~QuoteGarbage(read[1])
     /\ ~QuoteGarbage(arg))
        => ret = arg

\* the words of head, re-cased as a title
RecasedWords(head) ==
    [k \in 1..Len(Split(head)) |->
        IF k = 1 \/ Lower(Split(head)[k]) \notin lowercase_words
        THEN Capitalize(Split(head)[k])
        ELSE Lower(Split(head)[k])]

\* out ends with the part of name from position j on, and the words before
\* it are the re-cased words of name before position j
KeepsSuffix(name, j, out) ==
    LET n == Len(name) - j + 1
    IN  /\ Len(out) >= n
        /\ SubSeq(out, Len(out) - n + 1, Len(out)) = SubSeq(name, j, Len(name))
        /\ Split(SubSeq(out, 1, Len(out) - n)) = RecasedWords(SubSeq(name, 1, j - 1))

OpenParens(name) == {k \in 1..Len(name) : name[k] = "("}

\* C19 as claimed: for a name that ends with a parenthetical '(...)',
\* format_title_case returns a string that ends with that parenthetical
\* unchanged, and the words before it are re-cased: the first capitalized,
\* a later one lower-cased if it is one of the small words and capitalized
\* otherwise.
C19_LastParenKept ==
    (/\ pc = "format_title_case"
     /\ arg # <<>> /\ arg[Len(arg)] = ")"
     /\ OpenParens(arg) # {}
     /\ MaxOf(OpenParens(arg)) <= Len(arg) - 2
     /\ \A k \in MaxOf(OpenParens(arg))..(Len(arg) - 1) : arg[k] # ")")
        => KeepsSuffix(arg, MaxOf(OpenParens(arg)), ret)

\* C19 as amended: for a name of one line that ends with ')' and whose first
\* '(' is followed by at least one character before that ')', format_title_case
\* returns a string that ends with the part of the name from its first '('
\* on, unchanged, and the words before the first '(' are re-cased in that way.
C19_FirstParenKept ==
    (/\ pc = "format_title_case"
     /\ arg # <<>> /\ arg[Len(arg)] = ")"
     /\ \A k \in 1..Len(arg) : arg[k] # "\n"
     /\ OpenParens(arg) # {}
     /\ MinOf(OpenParens(arg)) <= Len(arg) - 2)
        => KeepsSuffix(arg, MinOf(OpenParens(arg)), ret)

C19_Witness ==
    /\ pc = "format_title_case"
    /\ arg = <<"a","B"," ","T","H","E","(","A","B",")">>
    /\ ret = <<"A","b"," ","t","h","e"," ","(","A","B",")">>

-----------------------------------------------------------------------------
(* Properties of the manager queries (SpecQuery) *)

\* C20: every manager query that takes a limit raises ValidationError when the
\* limit is 0 or negative, and returns no rows
C20_NonPositiveLimitRaises ==
    (pc = "query" /\ arg[2] <= 0) => ret = <<"ValidationError">>

-----------------------------------------------------------------------------
(* Properties of the user and favorites managers (SpecUsers) *)

\* the arguments of a create call name an existing user / fail the validation
Taken(us, a) == \E u \in DOMAIN us : us[u].username = a[1] \/ us[u].email = a[2]

Malformed(a) ==
    Len(a[1]) < 3 \/ ~Contains(a[2], <<"@">>) \/ Len(a[3]) < MIN_PASSWORD_LENGTH

UniqueUsers(us) ==
    \A u, v \in DOMAIN us :
        u # v => us[u].username # us[v].username /\ us[u].email # us[v].email

\* C21 as stated: no two users share a username or an email; a create whose
\* username or email is that of an existing user raises DuplicateError, a
\* create with a short username, an email without '@' or a short password
\* raises ValidationError, and in both cases the users are unchanged.
C21_CreateErrors ==
    [][ pc' = "create" =>
          /\ UniqueUsers(users')
          /\ Taken(users, arg') => ret' = <<"DuplicateError">> /\ users' = users
          /\ Malformed(arg') => ret' = <<"ValidationError">> /\ users' = users
      ]_vars

\* C21 amended: the validation comes first. No two users share a username or
\* an email; a create with malformed arguments raises ValidationError, whether
\* or not they name an existing user; a create with well-formed arguments
\* that name an existing user raises DuplicateError; in both cases the users
\* are unchanged, and every other create adds exactly the new user.
C21_ValidationBeforeDuplicate ==
    [][ pc' = "create" =>
          /\ UniqueUsers(users')
          /\ Malformed(arg') => ret' = <<"ValidationError">> /\ users' = users
          /\ (~Malformed(arg') /\ Taken(users, arg'))
                => ret' = <<"DuplicateError">> /\ users' = users
          /\ (~Malformed(arg') /\ ~Taken(users, arg'))
                => /\ ret' = <<"ok">>
                   /\ Len(users') = Len(users) + 1
                   /\ SubSeq(users', 1, Len(users)) = users
                   /\ users'[Len(users')].username = arg'[1]
                   /\ users'[Len(users')].email = arg'[2]
      ]_vars

\* a second user was refused because only its email is taken
C21_Witness ==
    /\ pc = "create"
    /\ ret = <<"DuplicateError">>
    /\ Len(users) = 1
    /\ arg[1] # users[1].username
    /\ arg[2] = users[1].email

-----------------------------------------------------------------------------
(* Properties of is_likely_garbage: the order of the checks (SpecListMenu) *)

CheckOrder ==
    << "blacklist match", "excessive quotes", "improper abbreviation spacing",
       "unusual capitalization", "possible malformed scripture reference",
       "excessive periods", "doesn't match standard patterns" >>

\* the condition of check k of is_likely_garbage on a name
Fires(k, name) ==
    CASE k = 1 -> is_blacklisted(bl_exact_names, bl_patterns, name)[1]
      [] k = 2 -> Count(name, "\"") > 2
      [] k = 3 -> /\ ReSearch(Cat(<<Initial, Initial>>), name)
                  /\ ~ReSearch(Cat(<<Initial, Ch(" "), Initial>>), name)
      [] k = 4 -> /\ ReSearch(Cat(<<Cls(UPPER), Star(Cls(LOWER)), Cls(UPPER)>>), name)
                  /\ ~ReSearch(Ch("("), name)
      [] k = 5 -> /\ name # <<>> /\ name[1] \in DIGIT
                  /\ ~ReMatch(Cat(<<Bol, Plus(Cls(DIGIT)), SpaceRun,
                                    Plus(Cls(UPPER \cup LOWER))>>), name)
      [] k = 6 -> Count(name, ".") > 4
      [] k = 7 -> ~validate(name)[1]

\* C25: for a name not on the allow-list, the issues is_likely_garbage returns
\* are in the fixed order of the checks (deny-list match, excessive quotes,
\* improper abbreviation spacing, unusual capitalization, possible malformed
\* scripture reference, excessive periods, doesn't match standard patterns),
\* each check contributes at most one issue, a check contributes its issue
\* exactly when its own condition holds, whatever the earlier checks found,
\* and the flag is True exactly when the list is not empty.
C25_IssuesInCheckOrder ==
    (pc = "is_likely_garbage" /\ arg[1] \notin wl_names) =>
        LET issues == ret[2]
            Rank(i) == CHOOSE k \in DOMAIN CheckOrder : CheckOrder[k] = issues[i][1]
        IN  /\ \A i \in DOMAIN issues : \E k \in DOMAIN CheckOrder : CheckOrder[k] = issues[i][1]
            /\ \A i, j \in DOMAIN issues : i < j => Rank(i) < Rank(j)
            /\ \A k \in DOMAIN CheckOrder :
                   Fires(k, arg[1]) <=> \E i \in DOMAIN issues : issues[i][1] = CheckOrder[k]
            /\ ret[1] = (issues # <<>>)

\* a name on the deny-list for which every later check fires too: seven issues
C25_Witness ==
    /\ pc = "is_likely_garbage"
    /\ arg[1] \notin wl_names
    /\ ret[1]
    /\ Len(ret[2]) = 7
    /\ ret[2][1][1] = "blacklist match"
    /\ ret[2][7][1] = "doesn't match standard patterns"

-----------------------------------------------------------------------------
(* Properties of the importers (SpecImport) *)

\* the text an importer stores for an item: import_quote_result strips it
ItemText(r, item) == IF r.fn = "import_by_categories" THEN Strip(item) ELSE item

\* item k of the list repeats a text of the store or of an earlier item
Repeats(r, items, k) ==
    /\ ItemText(r, items[k]) # <<>>
    /\ \/ \E j \in DOMAIN texts : texts[j] = ItemText(r, items[k])
       \/ \E j \in 1..(k - 1) : ItemText(r, items[j]) = ItemText(r, items[k])

\* C23: the importers never insert a quote whose text already exists: no two
\* quotes of the store have the same text, whatever pages or searches are
\* imported, re-imported after a resume, or hold the same text twice; and an
\* item whose text the store or the same page already holds is counted as
\* skipped, not as imported.
C23_NoDuplicateTexts ==
    /\ [](\A i, j \in DOMAIN texts : i # j => texts[i] # texts[j])
    /\ [][ pc' = "page" =>
             LET items == arg'[2].quotes
                 repeated == {k \in DOMAIN items : Repeats(run', items, k)}
             IN  /\ run'.result.success = Len(pending')
                 /\ run'.result.success + run'.result.skip = Len(items)
                 /\ run'.result.success <= Len(items) - Cardinality(repeated)
                 /\ \A k \in DOMAIN pending' :
                        /\ \A j \in DOMAIN texts : texts[j] # pending'[k]
                        /\ \A j \in DOMAIN pending' : j # k => pending'[j] # pending'[k]
         ]_vars

\* after a resume, a page that holds twice the text the store already has was
\* imported again: both items were skipped
C23_Witness ==
    /\ pc = "page"
    /\ run.fn = "import_all_pages"
    /\ run.runs = 2
    /\ texts = << <<"a">> >>
    /\ arg[2].quotes = << <<"a">>, <<"a">> >>
    /\ run.result.skip = 2
    /\ run.result.success = 0
    /\ pending = <<>>

\* C24: checkpointed resume is at-least-once, for import_all_pages and for
\* import_by_categories: after any interruptions, each followed by a restart
\* with resume=True, the restarted run resumes (it reaches the loop at the
\* saved last page or category index + 1), and no page (category) between the
\* initial start and the one the loop is at has been processed zero times.
C24_AtLeastOnceResume ==
    /\ pc # "crashed"
    /\ (pc = "loop" /\ run.fn = "import_all_pages") =>
           \A p \in start_page..(run.current_page - 1) : <<"page", p>> \in processed
    /\ (pc = "loop" /\ run.fn = "import_by_categories") =>
           \A i \in 0..(run.idx - 1) : <<"category", i>> \in processed

LastReports(r, n) == SubSeq(r.reports, Len(r.reports) - n + 1, Len(r.reports))

NoRepeat(list) == \A i, j \in DOMAIN list : i # j => list[i] # list[j]

\* C26: after any sequence of FavoritesManager.add and remove calls, the
\* favorite quotes and the favorite authors of a user never contain the same
\* item twice. For a user that exists: add of an item already favorited raises
\* DuplicateError, remove of an item that is not favorited raises
\* NotFoundError, an unknown item_type raises ValidationError, in every error
\* case the favorites are unchanged; and an add followed by the remove of the
\* same item restores the previous favorites.
C26_FavoritesNeverRepeat ==
    /\ [](\A u \in DOMAIN users :
             NoRepeat(users[u].favorite_quotes) /\ NoRepeat(users[u].favorite_authors))
    /\ [][ (pc' \in {"favorites.add", "favorites.remove"} /\ arg'[1] \in DOMAIN users) =>
             LET user == arg'[1]
                 item == arg'[2]
                 known == arg'[3] \in {"quote", "author"}
                 field == FavoritesField(arg'[3])
                 had == known /\ \E k \in DOMAIN users[user][field] :
                                     users[user][field][k] = item
             IN  /\ ~known => ret' = <<"ValidationError">>
                 /\ (pc' = "favorites.add" /\ had) => ret' = <<"DuplicateError">>
                 /\ (pc' = "favorites.remove" /\ known /\ ~had) => ret' = <<"NotFoundError">>
                 /\ ret' # <<"ok">> => users' = users
                 /\ (pc' = "favorites.add" /\ ret' = <<"ok">>) =>
                        /\ users' = [users EXCEPT ![user][field] = Append(@, item)]
                        /\ FavoritesRemove(users', user, item, arg'[3]) = "ok"
                        /\ ListRemoved(users'[user][field], item) = users[user][field]
                 /\ (pc' = "favorites.remove" /\ ret' = <<"ok">>) =>
                        users' = [users EXCEPT ![user][field] = ListRemoved(@, item)]
         ]_vars

\* quote 1 was added to the favorites of user 1 next to quote 2 and removed
\* again: the favorites are those before the add
C26_Witness ==
    /\ pc = "favorites.remove"
    /\ ret = <<"ok">>
    /\ arg = <<1, 1, "quote">>
    /\ users[1].favorite_quotes = <<2>>
    /\ users[1].favorite_authors = <<1>>

-----------------------------------------------------------------------------
(* Properties of the review loop (Spec, SpecCrash) *)

Last(q) == q[Len(q)]

YesReplies == { <<"y","e","s">>, <<"Y","E","S"," ">> }

MenuChoices == { <<"1">>, <<"2">>, <<"3">>, <<"4">>, <<"5">>, <<"6">>, <<"7">> }

\* process_author is at its menu for the author cur
AtMenu == mode = "interactive" /\ pc = "review" /\ idx < Len(queue)

\* the step appended one record of the given type to the ledger
Logged(type) ==
    /\ Len(changes') = Len(changes) + 1
    /\ SubSeq(changes', 1, Len(changes)) = changes
    /\ Last(changes').type = type

\* C1: after merge_authors(from, to) for two distinct authors, every quote of
\* 'from' belongs to 'to', 'to' keeps its own quotes, 'from' no longer exists
\* and looking up the old name of 'from' finds no author.
C1_MergeMovesQuotes ==
    [][ Logged("MERGED") =>
          LET from == Last(changes').author_id
              to == get_by_name(authors, Last(changes').merged_with)
          IN  /\ from \in DOMAIN authors /\ to \in DOMAIN authors /\ to # from
              /\ DOMAIN quotes' = DOMAIN quotes
              /\ \A q \in DOMAIN quotes :
                    quotes'[q] = IF quotes[q] = from THEN to ELSE quotes[q]
              /\ from \notin DOMAIN authors'
              /\ to \in DOMAIN authors'
              /\ get_by_name(authors', authors[from].name) = NoAuthor
      ]_vars

C1_Witness ==
    /\ changes # <<>>
    /\ Last(changes).type = "MERGED"
    /\ Last(changes).author_id \notin DOMAIN authors
    /\ \A q \in DOMAIN quotes :
          quotes[q] = get_by_name(authors, Last(changes).merged_with)
    /\ get_by_name(authors, Last(changes).old_name) = NoAuthor

\* C3: every rename, merge or deletion applied by the review loop appends
\* exactly one record of the matching type (RENAMED, MERGED, DELETED) for that
\* author to the ledger, whichever menu option triggers it.
C3_EveryMutationLogged ==
    [][ \A a \in DOMAIN authors :
          /\ (a \in DOMAIN authors' /\ authors'[a].name # authors[a].name)
                => (Logged("RENAMED") /\ Last(changes').author_id = a)
          /\ (a \notin DOMAIN authors' /\ AtMenu /\ Strip(read'[1]) \in {<<"5">>, <<"6">>})
                => (Logged("DELETED") /\ Last(changes').author_id = a)
          /\ (a \notin DOMAIN authors' /\ ~(AtMenu /\ Strip(read'[1]) \in {<<"5">>, <<"6">>}))
                => (Logged("MERGED") /\ Last(changes').author_id = a)
      ]_vars

\* C4 as claimed: when process_author returns for an author that still exists,
\* the edit flag is cleared for every option except 1 (keep) and 7 (skip),
\* which leave it as it was.
C4_ClearedExceptKeepAndSkip ==
    [][ (AtMenu /\ idx' = idx + 1 /\ cur \in DOMAIN authors')
          => authors'[cur].edit = IF Strip(read'[1]) \in {<<"1">>, <<"7">>}
                                  THEN authors[cur].edit
                                  ELSE FALSE
      ]_vars

\* C4 as amended: when process_author returns for an author that still exists,
\* the edit flag is cleared if the author was renamed, and is as it was after
\* every other action (keep, skip, add to whitelist, add to blacklist without
\* deletion, a rename to the same name, a declined merge).
C4_ClearedOnlyByRename ==
    [][ (AtMenu /\ idx' = idx + 1 /\ cur \in DOMAIN authors')
          => authors'[cur].edit = IF authors'[cur].name # authors[cur].name
                                  THEN FALSE
                                  ELSE authors[cur].edit
      ]_vars

C4_Witness ==
    /\ mode = "interactive" /\ pc = "review" /\ idx >= 1
    /\ Strip(read[1]) = <<"4">>
    /\ queue[idx] \in DOMAIN authors
    /\ authors[queue[idx]].name \in wl_names
    /\ authors[queue[idx]].edit

\* C5: in every crash state, an author whose committed row shows a rename,
\* merge or deletion has its record in the persisted ledger file.
C5_LedgerNeverLost ==
    pc = "crashed" =>
        \A a \in 1..Len(InitNames) :
            (a \notin DOMAIN authors \/ authors[a].name # InitNames[a])
                => \E k \in 1..Len(log_file) : log_file[k].author_id = a

\* the name that option 2 or 3 passes to _apply_change belongs to another author
NameTaken ==
    /\ AtMenu
    /\ LET name == authors[cur].name
           new_name == IF Strip(read'[1]) = <<"2">> THEN Strip(suggest_format(name))
                       ELSE IF Strip(read'[1]) = <<"3">> /\ Len(read') >= 2 THEN Strip(read'[2])
                       ELSE name
       IN  /\ new_name # name
           /\ Strip(read'[1]) = <<"2">> => suggest_format(name) # name
           /\ \E b \in DOMAIN authors : b # cur /\ authors[b].name = new_name

\* C7: when the new name belongs to a different author, _apply_change does not
\* rename; it asks whether to merge, and on any reply other than 'yes' nothing
\* changes: authors, quotes, lists, ledger and session lists are as before.
C7_DeclinedMergeChangesNothing ==
    [][ NameTaken =>
          /\ Len(read') = IF Strip(read'[1]) = <<"2">> THEN 2 ELSE 3
          /\ cur \in DOMAIN authors' => authors'[cur] = authors[cur]
          /\ Last(read') \notin YesReplies
                => UNCHANGED <<storeVars, listVars, ledgerVars, changes_made, skipped>>
      ]_vars

C7_Witness ==
    /\ mode = "interactive" /\ pc = "review" /\ idx >= 1
    /\ Len(read) = 3
    /\ Strip(read[1]) = <<"3">>
    /\ Last(read) = <<"n","o">>
    /\ queue[idx] \in DOMAIN authors
    /\ \E b \in DOMAIN authors : b # queue[idx] /\ authors[b].name = Strip(read[2])
    /\ changes = <<>>

NotApplicable ==
    /\ AtMenu
    /\ read' # <<>>
    /\ \/ Strip(read'[1]) \notin MenuChoices
       \/ Strip(read'[1]) = <<"2">> /\ suggest_format(authors[cur].name) = authors[cur].name
       \/ Strip(read'[1]) = <<"3">> /\ Len(read') = 2 /\ Strip(read'[2]) = <<>>
       \/ Strip(read'[1]) = <<"6">> /\ Len(read') = 2 /\ Last(read') \notin YesReplies

\* C9: an input that is not an applicable option re-prompts for the same
\* author and changes nothing: store, lists, ledger and session lists.
C9_InapplicableInputReprompts ==
    [][ NotApplicable =>
          /\ pc' = "review"
          /\ UNCHANGED <<storeVars, listVars, ledgerVars, loopVars>>
      ]_vars

C9_Witness ==
    /\ mode = "interactive" /\ pc = "review"
    /\ idx = 1 /\ idx < Len(queue)
    /\ Len(read) = 2
    /\ Strip(read[1]) = <<"3">>
    /\ Strip(read[2]) = <<>>
    /\ skipped # <<>>

\* the lines read confirm a deletion: option 6 with 'yes', or option 5 with
\* 'yes' to its second question
DeleteConfirmed ==
    /\ AtMenu
    /\ \/ Strip(read'[1]) = <<"6">> /\ Len(read') = 2 /\ Last(read') \in YesReplies
       \/ Strip(read'[1]) = <<"5">> /\ Len(read') = 3 /\ Last(read') \in YesReplies

\* C22: a confirmed deletion (option 6, or option 5 followed by 'yes') removes
\* the author together with all of its quotes: afterwards the author is gone
\* and no quote references it.
C22_DeleteRemovesAuthorAndQuotes ==
    [][ DeleteConfirmed =>
          /\ cur \notin DOMAIN authors'
          /\ \A q \in DOMAIN quotes' : quotes'[q] # cur
      ]_vars

\* C27: run_interactive presents each author of the list needs_edit returned
\* at the start of the pass once, in list order (the list is not read again,
\* so an author left flagged is not presented again), and the pass reaches
\* the summary once the user has entered an applicable option for each author.
C27_PassReachesSummary ==
    /\ [][ AtMenu => /\ pc' = "review" => queue' = queue
                     /\ idx' \in {idx, idx + 1} ]_vars
    /\ (mode = "interactive" /\ pc = "review") ~> (pc = "done")

\* C28: author names stay unique and non-empty under the review loop: from a
\* store whose author names are distinct and non-empty, after any sequence of
\* interactive or batch actions (accept suggestion, manual edit, merge,
\* delete, whitelist, blacklist, skip) no two existing authors have the same
\* name and no author has an empty name.
C28_NamesUniqueNonEmpty ==
    \A a, b \in DOMAIN authors :
        /\ authors[a].name # <<>>
        /\ a # b => authors[a].name # authors[b].name

\* an author was renamed and another was merged into the author of that name
C28_Witness ==
    /\ \E i, j \in DOMAIN changes :
          /\ i < j
          /\ changes[i].type = "RENAMED"
          /\ changes[j].type = "MERGED"
          /\ changes[j].merged_with = changes[i].new_name
    /\ Cardinality(DOMAIN authors) = Len(InitNames) - 1

\* the step leaves the tables and the ledger as they are
NothingChanged ==
    /\ authors' = authors /\ quotes' = quotes
    /\ changes' = changes /\ log_file' = log_file
    /\ changes_made' = changes_made

\* C29: a successful rename changes only the name and the review flag of the
\* renamed author: its quotes and every other author are unchanged, and the
\* ledger gains one RENAMED record with the author's id, old name and new
\* name. A rename whose stripped new name equals the current name changes
\* nothing (no flag change, no ledger record). A merge leaves the name and the
\* review flag of the target, and all authors other than source and target,
\* unchanged.
C29_RenameAndMergeFrame ==
    [][ /\ \A a \in DOMAIN authors :
              (a \in DOMAIN authors' /\ authors'[a].name # authors[a].name) =>
                  /\ Logged("RENAMED")
                  /\ Last(changes').author_id = a
                  /\ Last(changes').old_name = authors[a].name
                  /\ Last(changes').new_name = authors'[a].name
                  /\ quotes' = quotes
                  /\ DOMAIN authors' = DOMAIN authors
                  /\ \A b \in DOMAIN authors \ {a} : authors'[b] = authors[b]
        /\ Len(changes') > Len(changes) /\ Last(changes').type = "RENAMED" =>
              LET a == Last(changes').author_id
              IN  a \in DOMAIN authors' /\ authors'[a].name # authors[a].name
        /\ (AtMenu /\ Strip(read'[1]) = <<"3">> /\ Len(read') = 2
                   /\ Strip(read'[2]) = authors[cur].name) => NothingChanged
        /\ Logged("MERGED") =>
              LET from == Last(changes').author_id
                  to == get_by_name(authors, Last(changes').merged_with)
              IN  /\ to \in DOMAIN authors' /\ authors'[to] = authors[to]
                  /\ \A b \in DOMAIN authors \ {from, to} :
                         b \in DOMAIN authors' /\ authors'[b] = authors[b]
      ]_vars

\* a flagged author with a quote was renamed next to another flagged author
C29_Witness ==
    /\ changes # <<>>
    /\ Last(changes).type = "RENAMED"
    /\ LET a == Last(changes).author_id
       IN  /\ a \in DOMAIN authors
           /\ authors[a].name = Last(changes).new_name
           /\ ~authors[a].edit
           /\ \E q \in DOMAIN quotes : quotes[q] = a
           /\ \E b \in DOMAIN authors \ {a} : authors[b].edit

====
